---- MODULE Spec2Model ----
(***************************************************************************)
(* Model of emmet's reconciliation of a spreadsheet roster against the     *)
(* accounts of a Keycloak realm: the `sync` command of                     *)
(* src/src/emmet/commands/sync.py and the older `sync` of                  *)
(* src/src/emmet/cli.py.  One run of one command is modelled, from the     *)
(* roster returned by parse_excel_users to the end of the disable phase.   *)
(* Every provider call either succeeds or raises KeycloakError.            *)
(* A second specification, SpecParse, models parse_excel_users of          *)
(* src/src/emmet/utils/excel_parsing.py with the column detectors of       *)
(* utils/column_detection: one call, from load_workbook to the return.     *)
(***************************************************************************)
EXTENDS Naturals, Sequences, FiniteSets

VARIABLES
    command,                  \* which sync is run: "sync" (commands/sync.py) or "cli_sync" (cli.py)
    dry_run,                  \* --dry-run
    email,                    \* --email filter, None when not given
    parsed,                   \* the roster parse_excel_users returned
    excel_users,              \* the local roster of the run (after the --email filter)
    provider,                 \* the accounts held by the identity provider
    initial_accounts,         \* the accounts the provider held when the run started
    membership,               \* the provider's group membership: pairs <<account id, group name>>
    keycloak_users,           \* the local account list of the run
    keycloak_users_by_email,  \* the local email -> account lookup of the run
    pc,                       \* position of the run
    i,                        \* roster records handled so far by the sync loop
    j,                        \* accounts handled so far by the disable loop
    calls,                    \* provider mutation calls issued, in order
    plan,                     \* decisions reported so far: create / update / disable / uptodate
    aborted,                  \* why the run ended early, None otherwise
    file,                     \* the workbook file parse_excel_users is given
    ppc,                      \* position of parse_excel_users
    header_row,               \* header_row_num: the detected header row
    col_idx,                  \* the detected columns: email, name, hometown, dates, discord, bricklink
    row_idx,                  \* the row the loop of parse_excel_users is at
    parsed_users,             \* users: the records parse_excel_users collected so far
    returned,                 \* the roster parse_excel_users returned
    exceptions,               \* the exceptions raised while parsing, in order
    previous_runs,            \* the calls and the plan of the earlier runs on the same roster
    name_input,               \* name_str: the argument parse_name_field is called with
    name_result               \* what parse_name_field returned, <<>> before it returns

sync_vars == <<command, dry_run, email, parsed, excel_users, provider, initial_accounts, membership,
          keycloak_users, keycloak_users_by_email, pc, i, j, calls, plan, aborted,
          previous_runs>>

parse_vars == <<file, ppc, header_row, col_idx, row_idx, parsed_users, returned, exceptions>>

name_vars == <<name_input, name_result>>

vars == <<command, dry_run, email, parsed, excel_users, provider, initial_accounts, membership,
          keycloak_users, keycloak_users_by_email, pc, i, j, calls, plan, aborted,
          file, ppc, header_row, col_idx, row_idx, parsed_users, returned, exceptions,
          previous_runs, name_input, name_result>>

----------------------------------------------------------------------------
(* Bounds of the model *)

MaxRoster == 2
MaxAccounts == 2
MaxRows == 2
MaxRivalRows == 4
MaxNameLen == 6

----------------------------------------------------------------------------
(* Python values *)

None == "<None>"

\* Python truthiness of an optional string
Truthy(v) == v # None /\ v # ""

(* emmet/constants.py *)
PROTECTED_USERS == {"admin", "service-account-emmet-cli-client"}

REQUIRED_USER_ACTIONS == <<"UPDATE_PASSWORD", "VERIFY_EMAIL", "WEBAUTHN_REGISTER_PASSWORDLESS">>

INITIAL_GROUPS == <<"members">>

AttrKeys == {"fullName", "hometown", "effectiveDate", "expirationDate", "discord", "bricklink"}

----------------------------------------------------------------------------
(* Roster records: the User objects parse_excel_users builds *)

\* uuid.uuid4() of the row: a fresh username per record
Uuid == <<"uuid-1", "uuid-2", "uuid-3", "uuid-4">>

User(username, mail, p) ==
    [username |-> username, email |-> mail,
     firstName |-> p.firstName, lastName |-> p.lastName, fullName |-> p.fullName,
     hometown |-> p.hometown, effectiveDate |-> p.effectiveDate,
     expirationDate |-> p.expirationDate, discord |-> p.discord,
     bricklink |-> p.bricklink]

\* a row with every column filled
RowFull ==
    [firstName |-> "Ada", lastName |-> "Lovelace", fullName |-> "Ada Lovelace",
     hometown |-> "Espoo", effectiveDate |-> "01.01.2024", expirationDate |-> None,
     discord |-> None, bricklink |-> "ada"]

\* a row with an email and nothing else
RowBare ==
    [firstName |-> None, lastName |-> None, fullName |-> None,
     hometown |-> None, effectiveDate |-> None, expirationDate |-> None,
     discord |-> None, bricklink |-> None]

\* a row with a one-word name and a whitespace-only hometown cell
RowBlank ==
    [firstName |-> "Ada", lastName |-> None, fullName |-> "Ada",
     hometown |-> "", effectiveDate |-> None, expirationDate |-> None,
     discord |-> "ada#1", bricklink |-> None]

----------------------------------------------------------------------------
(* Provider accounts: the user representations get_users returns *)

Account(username, mail, first, last, enabled, verified, attributes) ==
    [id |-> 0, username |-> username, email |-> mail, firstName |-> first,
     lastName |-> last, enabled |-> enabled, emailVerified |-> verified,
     attributes |-> attributes]

AttrsFull ==
    [k \in {"locale", "fullName", "hometown", "effectiveDate", "bricklink"} |->
        CASE k = "locale" -> <<"fi">>
          [] k = "fullName" -> <<"Ada Lovelace">>
          [] k = "hometown" -> <<"Espoo">>
          [] k = "effectiveDate" -> <<"01.01.2024">>
          [] OTHER -> <<"ada">>]

AttrsOther ==
    [k \in {"hometown", "discord", "expirationDate"} |->
        CASE k = "hometown" -> <<"Turku">>
          [] k = "discord" -> <<"ada#1">>
          [] OTHER -> <<>>]

AttrsNone == [k \in {} |-> <<>>]

\* accounts that differ in who they are: username and email
IdentityAccounts ==
    { Account("admin", "c@x.fi", "Ad", "Min", TRUE, TRUE, AttrsNone),
      Account("service-account-emmet-cli-client", "d@x.fi", None, None, TRUE, TRUE, AttrsNone),
      Account("m3", "service-account-emmet-cli-client", "Ser", "Vice", TRUE, TRUE, AttrsNone),
      Account("m4", None, None, None, TRUE, FALSE, AttrsNone),
      Account("m5", "c@x.fi", "Gone", "Member", TRUE, TRUE, AttrsFull) }

\* accounts that differ in what they hold
ProfileAccounts ==
    { Account("m6", "a@x.fi", "Ada", "Lovelace", TRUE, TRUE, AttrsFull),
      Account("m7", "a@x.fi", "Augusta", "", FALSE, FALSE, AttrsOther),
      Account("m8", "b@x.fi", None, None, TRUE, FALSE, AttrsNone),
      Account("m5", "c@x.fi", "Gone", "Member", TRUE, TRUE, AttrsFull) }

IdentityRows == { <<"a@x.fi", RowFull>>, <<"b@x.fi", RowFull>> }

ProfileRows == { <<"a@x.fi", RowFull>>, <<"a@x.fi", RowBlank>>, <<"b@x.fi", RowBare>> }

\* sequences of at most n elements of S
SeqUpTo(S, n) == UNION { [1..m -> S] : m \in 0..n }

\* rosters: rows of the sheet in order, each with its own uuid
Rosters(rows) ==
    { [k \in DOMAIN r |-> User(Uuid[k], r[k][1], r[k][2])] : r \in SeqUpTo(rows, MaxRoster) }

\* account lists: usernames are unique in a realm, ids are assigned by the provider
AccountLists(accounts) ==
    { [k \in DOMAIN a |-> [a[k] EXCEPT !.id = k]] :
        a \in { s \in SeqUpTo(accounts, MaxAccounts) :
                  \A m, n \in DOMAIN s : m # n => s[m].username # s[n].username } }

----------------------------------------------------------------------------
(* The provider: what a call that succeeds does to the accounts it holds *)

\* update_user(id, payload): the fields of the payload replace the account's
ProviderUpdate(accounts, id, payload) ==
    [k \in DOMAIN accounts |->
        IF accounts[k].id = id
        THEN [f \in DOMAIN accounts[k] |->
                IF f \in DOMAIN payload THEN payload[f] ELSE accounts[k][f]]
        ELSE accounts[k]]

\* the id create_user returns
NewId(accounts) == Len(accounts) + 1

\* create_user(payload): a new account with a fresh id
ProviderCreate(accounts, payload) ==
    Append(accounts,
           [id |-> NewId(accounts), username |-> payload.username,
            email |-> payload.email, firstName |-> payload.firstName,
            lastName |-> payload.lastName, enabled |-> payload.enabled,
            emailVerified |-> payload.emailVerified,
            attributes |-> IF "attributes" \in DOMAIN payload
                           THEN payload.attributes ELSE <<>>])

----------------------------------------------------------------------------
(* commands/sync.py: update_existing_user *)

\* existing_attributes.get(k, [None])[0] if existing_attributes.get(k) else None
ExistingAttribute(existing_attributes, k) ==
    IF k \in DOMAIN existing_attributes /\ Len(existing_attributes[k]) > 0
    THEN existing_attributes[k][1]
    ELSE None

\* Changes that reports a name whenever the roster has one, whatever the account holds
Changes_FlagsRosterNames(existing_user, user) ==
    (IF existing_user.email # user.email THEN {"email"} ELSE {})
    \cup { k \in AttrKeys : ExistingAttribute(existing_user.attributes, k) # user[k] }
    \cup (IF Truthy(user.firstName) THEN {"firstName"} ELSE {})
    \cup (IF Truthy(user.lastName) THEN {"lastName"} ELSE {})

\* the fields for which update_existing_user appends an entry to `changes`
Changes(existing_user, user) ==
    (IF existing_user.email # user.email THEN {"email"} ELSE {})
    \cup { k \in AttrKeys : ExistingAttribute(existing_user.attributes, k) # user[k] }
    \cup (IF ~Truthy(existing_user.firstName) /\ Truthy(user.firstName)
          THEN {"firstName"} ELSE {})
    \cup (IF ~Truthy(existing_user.lastName) /\ Truthy(user.lastName)
          THEN {"lastName"} ELSE {})

\* UpdateAttributes that writes all six roster attributes, the empty ones too
UpdateAttributes_WritesEmpty(existing_attributes, user) ==
    [k \in DOMAIN existing_attributes \cup AttrKeys |->
        IF k \in AttrKeys THEN <<user[k]>> ELSE existing_attributes[k]]

\* attributes = existing_attributes.copy(), then one assignment per truthy roster value
UpdateAttributes(existing_attributes, user) ==
    [k \in DOMAIN existing_attributes \cup { a \in AttrKeys : Truthy(user[a]) } |->
        IF k \in AttrKeys /\ Truthy(user[k]) THEN <<user[k]>> ELSE existing_attributes[k]]

\* UpdatePayload that sends the names of the roster record
UpdatePayload_RosterNames(existing_user, user) ==
    [email |-> user.email,
     firstName |-> user.firstName,
     lastName |-> user.lastName,
     attributes |-> UpdateAttributes(existing_user.attributes, user)]

\* the payload of update_user: final_first_name, final_last_name and attributes
UpdatePayload(existing_user, user) ==
    [email |-> user.email,
     firstName |-> IF Truthy(existing_user.firstName)
                   THEN existing_user.firstName ELSE user.firstName,
     lastName |-> IF Truthy(existing_user.lastName)
                  THEN existing_user.lastName ELSE user.lastName,
     attributes |-> UpdateAttributes(existing_user.attributes, user)]

(* commands/sync.py: create_new_user *)

\* CreateAttributes that sends all six roster attributes, the empty ones too
CreateAttributes_SendsEmpty(user) ==
    [k \in {"locale"} \cup AttrKeys |->
        IF k = "locale" THEN <<"fi">> ELSE <<user[k]>>]

\* attributes = {"locale": ["fi"]}, then one assignment per truthy roster value
CreateAttributes(user) ==
    [k \in {"locale"} \cup { a \in AttrKeys : Truthy(user[a]) } |->
        IF k = "locale" THEN <<"fi">> ELSE <<user[k]>>]

CreatePayload(user) ==
    [username |-> user.username, email |-> user.email, emailVerified |-> FALSE,
     firstName |-> user.firstName, lastName |-> user.lastName, enabled |-> TRUE,
     requiredActions |-> REQUIRED_USER_ACTIONS,
     attributes |-> CreateAttributes(user),
     credentials |-> <<[type |-> "password", value |-> "token_urlsafe", temporary |-> TRUE]>>]

\* what happens for one configured group: the group is added, group_user_add raises,
\* get_groups finds no group of that name, or get_groups raises
GroupOutcomes == {"added", "add_failed", "not_found", "get_failed"}

\* the group_user_add calls of one create, in the order of INITIAL_GROUPS
GroupCalls(n, new_user_id, outcome) ==
    LET attempt(g) == [op |-> "group_user_add", id |-> new_user_id,
                       payload |-> [group |-> INITIAL_GROUPS[g], result |-> outcome[g]],
                       ok |-> outcome[g] = "added", at |-> <<"roster", n>>]
        Issued(c) == c.payload.result \in {"added", "add_failed"}
    IN  SelectSeq([g \in DOMAIN INITIAL_GROUPS |-> attempt(g)], Issued)

GroupsAdded(new_user_id, outcome) ==
    { <<new_user_id, INITIAL_GROUPS[g]>> : g \in { h \in DOMAIN INITIAL_GROUPS : outcome[h] = "added" } }

(* commands/sync.py: sync *)

\* ByEmail in which the first account of an email stays
ByEmail_FirstWins(users) ==
    [e \in { users[k].email : k \in { n \in DOMAIN users : Truthy(users[n].email) } } |->
        LET first == CHOOSE k \in DOMAIN users :
                         /\ users[k].email = e
                         /\ \A n \in DOMAIN users : users[n].email = e => k <= n
        IN  users[first]]

\* {user.get("email"): user for user in keycloak_users if user.get("email")}
ByEmail(users) ==
    [e \in { users[k].email : k \in { n \in DOMAIN users : Truthy(users[n].email) } } |->
        LET last == CHOOSE k \in DOMAIN users :
                        /\ users[k].email = e
                        /\ \A n \in DOMAIN users : users[n].email = e => n <= k
        IN  users[last]]

\* [user for user in xs if user.email == e], for rosters and for account lists
WithEmail(xs, e) == SelectSeq(xs, LAMBDA x : x.email = e)

\* [user.email for user in excel_users if user.email]
ExcelEmails(users) == { users[k].email : k \in { n \in DOMAIN users : Truthy(users[n].email) } }

Add(p, kind, x) == [p EXCEPT ![kind] = @ \cup {x}]

NoPlan == [create |-> {}, update |-> {}, uptodate |-> {}, disable |-> {}]

----------------------------------------------------------------------------
(* One run of commands/sync.py: sync *)

\* parse_name_field is not called on its own
NameParserNotRun == name_input = <<>> /\ name_result = <<>>

\* parse_excel_users has returned: the run starts from its roster
ParserNotRun ==
    /\ file = [readable |-> TRUE, active |-> FALSE, ws |-> <<>>]
    /\ ppc = "returned"
    /\ header_row = 0
    /\ col_idx = [email |-> 0, name |-> 0, hometown |-> 0, effective_date |-> 0,
                  expiration_date |-> 0, discord |-> 0, bricklink |-> 0]
    /\ row_idx = 0
    /\ parsed_users = <<>>
    /\ returned = <<>>
    /\ exceptions = <<>>

Init ==
    /\ ParserNotRun
    /\ NameParserNotRun
    /\ previous_runs = <<>>
    /\ command \in {"sync", "cli_sync"}
    /\ dry_run \in BOOLEAN
    /\ email \in IF command = "sync" THEN {None, "a@x.fi"} ELSE {None}
    /\ \E family \in { <<IdentityRows, IdentityAccounts>>, <<ProfileRows, ProfileAccounts>> } :
          /\ parsed \in Rosters(family[1])
          /\ provider \in AccountLists(family[2])
    /\ initial_accounts = provider
    /\ excel_users = parsed
    /\ membership = {}
    /\ keycloak_users = <<>>
    /\ keycloak_users_by_email = <<>>
    /\ pc = "start"
    /\ i = 0
    /\ j = 0
    /\ calls = <<>>
    /\ plan = NoPlan
    /\ aborted = None

\* Abort that returns on every failure but that of get_users
Abort_GoesOnWithoutAccounts(why) ==
    /\ pc' = IF why = "get_users_failed" THEN "sync" ELSE "done"
    /\ aborted' = why

Abort(why) ==
    /\ pc' = "done"
    /\ aborted' = why

\* the --email option is never honoured
EmailGiven_Never == FALSE

\* `if email:` -- the --email option was given
EmailGiven == Truthy(email)

\* AfterSyncLoop of a run that a failed create or update ends
AfterSyncLoop_StopsOnError(n) ==
    IF calls' # calls /\ ~calls'[Len(calls')].ok /\ calls'[Len(calls')].op # "group_user_add"
    THEN "done"
    ELSE IF n < Len(excel_users) THEN "sync"
    ELSE IF EmailGiven \/ Len(keycloak_users) = 0 THEN "done"
    ELSE "disable"

\* where the run goes once n roster records are handled: the next record, the
\* disable phase (skipped under --email), or the end
AfterSyncLoop(n) ==
    IF n < Len(excel_users) THEN "sync"
    ELSE IF EmailGiven \/ Len(keycloak_users) = 0 THEN "done"
    ELSE "disable"

\* Start that goes on to the provider with an empty roster
Start_ConnectsWithEmptyRoster ==
    /\ command = "sync"
    /\ pc = "start"
    /\ IF EmailGiven
       THEN /\ excel_users' = WithEmail(parsed, email)
            /\ IF Len(excel_users') = 0 /\ Len(parsed) # 0
               THEN Abort("no_user_with_email")
               ELSE pc' = "connect" /\ UNCHANGED aborted
       ELSE pc' = "connect" /\ UNCHANGED <<excel_users, aborted>>
    /\ UNCHANGED <<command, dry_run, email, parsed, initial_accounts, provider, membership, keycloak_users,
                   keycloak_users_by_email, i, j, calls, plan>>
    /\ UNCHANGED previous_runs
    /\ UNCHANGED <<parse_vars, name_vars>>

\* parse_excel_users has returned; the --email filter is applied
Start ==
    /\ command = "sync"
    /\ pc = "start"
    /\ IF Len(parsed) = 0
       THEN Abort("no_users") /\ UNCHANGED excel_users
       ELSE IF EmailGiven
            THEN /\ excel_users' = WithEmail(parsed, email)
                 /\ IF Len(excel_users') = 0
                    THEN Abort("no_user_with_email")
                    ELSE pc' = "connect" /\ UNCHANGED aborted
            ELSE pc' = "connect" /\ UNCHANGED <<excel_users, aborted>>
    /\ UNCHANGED <<command, dry_run, email, parsed, initial_accounts, provider, membership, keycloak_users,
                   keycloak_users_by_email, i, j, calls, plan>>
    /\ UNCHANGED previous_runs
    /\ UNCHANGED <<parse_vars, name_vars>>

\* KeycloakAdmin(...) and get_token(): the token is got or KeycloakError is raised
Connect ==
    /\ command = "sync"
    /\ pc = "connect"
    /\ \E ok \in BOOLEAN :
          IF ok THEN pc' = "list" /\ UNCHANGED aborted
          ELSE Abort("connect_failed")
    /\ UNCHANGED <<command, dry_run, email, parsed, initial_accounts, excel_users, provider, membership,
                   keycloak_users, keycloak_users_by_email, i, j, calls, plan>>
    /\ UNCHANGED previous_runs
    /\ UNCHANGED <<parse_vars, name_vars>>

\* get_users({}): the accounts are listed and the lookup is built, or KeycloakError is raised
ListUsers ==
    /\ command = "sync"
    /\ pc = "list"
    /\ \E ok \in BOOLEAN :
          IF ok
          THEN /\ keycloak_users_by_email' = ByEmail(provider)
               /\ keycloak_users' = IF EmailGiven THEN WithEmail(provider, email)
                                    ELSE provider
               /\ pc' = "sync"
               /\ UNCHANGED aborted
          ELSE /\ Abort("get_users_failed")
               /\ UNCHANGED <<keycloak_users, keycloak_users_by_email>>
    /\ UNCHANGED <<command, dry_run, email, parsed, initial_accounts, excel_users, provider, membership,
                   i, j, calls, plan>>
    /\ UNCHANGED previous_runs
    /\ UNCHANGED <<parse_vars, name_vars>>

\* update_existing_user(keycloak_admin, existing_user, user, dry_run)
UpdateExistingUser(n, existing_user, user) ==
    IF Changes(existing_user, user) # {}
    THEN /\ plan' = Add(plan, "update", n)
         /\ IF ~dry_run /\ existing_user.id # 0
            THEN \E ok \in BOOLEAN :
                    /\ calls' = Append(calls, [op |-> "update_user", id |-> existing_user.id,
                                               payload |-> UpdatePayload(existing_user, user),
                                               ok |-> ok, at |-> <<"roster", n>>])
                    /\ provider' = IF ok
                                   THEN ProviderUpdate(provider, existing_user.id,
                                                       UpdatePayload(existing_user, user))
                                   ELSE provider
            ELSE UNCHANGED <<calls, provider>>
         /\ UNCHANGED membership
    ELSE /\ plan' = Add(plan, "uptodate", n)
         /\ UNCHANGED <<calls, provider, membership>>

\* create_new_user(keycloak_admin, user, dry_run)
CreateNewUser(n, user) ==
    /\ plan' = Add(plan, "create", n)
    /\ IF dry_run
       THEN UNCHANGED <<calls, provider, membership>>
       ELSE \E ok \in BOOLEAN :
               LET create == [op |-> "create_user", id |-> NewId(provider),
                              payload |-> CreatePayload(user), ok |-> ok,
                              at |-> <<"roster", n>>]
               IN  IF ok
                   THEN \E outcome \in [DOMAIN INITIAL_GROUPS -> GroupOutcomes] :
                           /\ calls' = Append(calls, create)
                                         \o GroupCalls(n, NewId(provider), outcome)
                           /\ provider' = ProviderCreate(provider, CreatePayload(user))
                           /\ membership' = membership
                                              \cup GroupsAdded(NewId(provider), outcome)
                   ELSE /\ calls' = Append(calls, create)
                        /\ UNCHANGED <<provider, membership>>

\* SyncUser that looks the record up in the accounts the provider holds now
SyncUser_LiveLookup ==
    /\ command = "sync"
    /\ pc = "sync"
    /\ i < Len(excel_users)
    /\ LET user == excel_users[i + 1]
       IN  IF ~Truthy(user.username) \/ ~Truthy(user.email)
           THEN UNCHANGED <<calls, provider, membership, plan>>
           ELSE IF user.email \in DOMAIN ByEmail(provider)
                THEN UpdateExistingUser(i + 1, ByEmail(provider)[user.email], user)
                ELSE CreateNewUser(i + 1, user)
    /\ i' = i + 1
    /\ pc' = AfterSyncLoop(i + 1)
    /\ UNCHANGED <<command, dry_run, email, parsed, initial_accounts, excel_users,
                   keycloak_users, keycloak_users_by_email, j, aborted>>
    /\ UNCHANGED previous_runs
    /\ UNCHANGED <<parse_vars, name_vars>>

\* SyncUser that goes through the roster from its last record to its first
SyncUser_LastFirst ==
    /\ command = "sync"
    /\ pc = "sync"
    /\ i < Len(excel_users)
    /\ LET n == Len(excel_users) - i
           user == excel_users[n]
       IN  IF ~Truthy(user.username) \/ ~Truthy(user.email)
           THEN UNCHANGED <<calls, provider, membership, plan>>
           ELSE IF user.email \in DOMAIN keycloak_users_by_email
                THEN UpdateExistingUser(n, keycloak_users_by_email[user.email], user)
                ELSE CreateNewUser(n, user)
    /\ i' = i + 1
    /\ pc' = AfterSyncLoop(i + 1)
    /\ UNCHANGED <<command, dry_run, email, parsed, initial_accounts, excel_users, keycloak_users,
                   keycloak_users_by_email, j, aborted>>
    /\ UNCHANGED previous_runs
    /\ UNCHANGED <<parse_vars, name_vars>>

\* one iteration of `for user in excel_users`
SyncUser ==
    /\ command = "sync"
    /\ pc = "sync"
    /\ i < Len(excel_users)
    /\ LET user == excel_users[i + 1]
       IN  IF ~Truthy(user.username) \/ ~Truthy(user.email)
           THEN UNCHANGED <<calls, provider, membership, plan>>
           ELSE IF user.email \in DOMAIN keycloak_users_by_email
                THEN UpdateExistingUser(i + 1, keycloak_users_by_email[user.email], user)
                ELSE CreateNewUser(i + 1, user)
    /\ i' = i + 1
    /\ pc' = AfterSyncLoop(i + 1)
    /\ UNCHANGED <<command, dry_run, email, parsed, initial_accounts, excel_users, keycloak_users,
                   keycloak_users_by_email, j, aborted>>
    /\ UNCHANGED previous_runs
    /\ UNCHANGED <<parse_vars, name_vars>>

\* disable_user that calls the provider in a dry run too
DisableUserCall_IgnoresDryRun(kc_user) ==
    /\ plan' = Add(plan, "disable", kc_user.id)
    /\ \E ok \in BOOLEAN :
          /\ calls' = Append(calls, [op |-> "update_user", id |-> kc_user.id,
                                     payload |-> [enabled |-> FALSE], ok |-> ok,
                                     at |-> <<"account", j + 1>>])
          /\ provider' = IF ok
                         THEN ProviderUpdate(provider, kc_user.id, [enabled |-> FALSE])
                         ELSE provider

\* disable_user(keycloak_admin, kc_user, dry_run)
DisableUserCall(kc_user) ==
    /\ plan' = Add(plan, "disable", kc_user.id)
    /\ IF ~dry_run /\ kc_user.id # 0
       THEN \E ok \in BOOLEAN :
               /\ calls' = Append(calls, [op |-> "update_user", id |-> kc_user.id,
                                          payload |-> [enabled |-> FALSE], ok |-> ok,
                                          at |-> <<"account", j + 1>>])
               /\ provider' = IF ok
                              THEN ProviderUpdate(provider, kc_user.id, [enabled |-> FALSE])
                              ELSE provider
       ELSE UNCHANGED <<calls, provider>>

\* SkipsDisable without the hardcoded protection of "admin"
SkipsDisable_NoAdminCheck(kc_user) ==
    \/ (Truthy(kc_user.email) /\ kc_user.email \in ExcelEmails(excel_users))
    \/ (Truthy(kc_user.email) /\ kc_user.email \in PROTECTED_USERS)
    \/ ~Truthy(kc_user.email)

\* SkipsDisable that also leaves alone the accounts that are disabled already
SkipsDisable_SkipsDisabled(kc_user) ==
    \/ (Truthy(kc_user.email) /\ kc_user.email \in ExcelEmails(excel_users))
    \/ (Truthy(kc_user.email) /\ kc_user.email \in PROTECTED_USERS)
    \/ kc_user.username = "admin"
    \/ ~Truthy(kc_user.email)
    \/ ~kc_user.enabled

\* SkipsDisable without the test of the account's email against the roster
SkipsDisable_NoRosterCheck(kc_user) ==
    \/ (Truthy(kc_user.email) /\ kc_user.email \in PROTECTED_USERS)
    \/ kc_user.username = "admin"
    \/ ~Truthy(kc_user.email)

\* the account is left alone by the disable phase
SkipsDisable(kc_user) ==
    \/ (Truthy(kc_user.email) /\ kc_user.email \in ExcelEmails(excel_users))
    \/ (Truthy(kc_user.email) /\ kc_user.email \in PROTECTED_USERS)
    \/ kc_user.username = "admin"
    \/ ~Truthy(kc_user.email)

\* one iteration of `for kc_user in keycloak_users`
DisableUser ==
    /\ command = "sync"
    /\ pc = "disable"
    /\ j < Len(keycloak_users)
    /\ LET kc_user == keycloak_users[j + 1]
       IN  IF SkipsDisable(kc_user)
           THEN UNCHANGED <<calls, provider, plan>>
           ELSE DisableUserCall(kc_user)
    /\ j' = j + 1
    /\ pc' = IF j + 1 < Len(keycloak_users) THEN "disable" ELSE "done"
    /\ UNCHANGED <<command, dry_run, email, parsed, initial_accounts, excel_users, membership, keycloak_users,
                   keycloak_users_by_email, i, aborted>>
    /\ UNCHANGED previous_runs
    /\ UNCHANGED <<parse_vars, name_vars>>

----------------------------------------------------------------------------
(* One run of cli.py: sync, the older command without --email and attributes *)

CliStart ==
    /\ command = "cli_sync"
    /\ pc = "start"
    /\ IF Len(parsed) = 0
       THEN Abort("no_users")
       ELSE pc' = "connect" /\ UNCHANGED aborted
    /\ UNCHANGED <<command, dry_run, email, parsed, initial_accounts, excel_users, provider, membership,
                   keycloak_users, keycloak_users_by_email, i, j, calls, plan>>
    /\ UNCHANGED previous_runs
    /\ UNCHANGED <<parse_vars, name_vars>>

CliConnect ==
    /\ command = "cli_sync"
    /\ pc = "connect"
    /\ \E ok \in BOOLEAN :
          IF ok THEN pc' = "list" /\ UNCHANGED aborted
          ELSE Abort("connect_failed")
    /\ UNCHANGED <<command, dry_run, email, parsed, initial_accounts, excel_users, provider, membership,
                   keycloak_users, keycloak_users_by_email, i, j, calls, plan>>
    /\ UNCHANGED previous_runs
    /\ UNCHANGED <<parse_vars, name_vars>>

CliListUsers ==
    /\ command = "cli_sync"
    /\ pc = "list"
    /\ \E ok \in BOOLEAN :
          IF ok
          THEN /\ keycloak_users_by_email' = ByEmail(provider)
               /\ keycloak_users' = provider
               /\ pc' = "sync"
               /\ UNCHANGED aborted
          ELSE /\ Abort("get_users_failed")
               /\ UNCHANGED <<keycloak_users, keycloak_users_by_email>>
    /\ UNCHANGED <<command, dry_run, email, parsed, initial_accounts, excel_users, provider, membership,
                   i, j, calls, plan>>
    /\ UNCHANGED previous_runs
    /\ UNCHANGED <<parse_vars, name_vars>>

CliUpdatePayload(user) ==
    [email |-> user.email, firstName |-> user.firstName, lastName |-> user.lastName]

CliCreatePayload(user) ==
    [username |-> user.username, email |-> user.email, emailVerified |-> FALSE,
     firstName |-> user.firstName, lastName |-> user.lastName, enabled |-> TRUE,
     requiredActions |-> REQUIRED_USER_ACTIONS]

\* what follows a successful update of an account whose email is not verified:
\* the emailVerified update raises, the send raises, or the mail is sent
VerifyOutcomes == {"update_failed", "send_failed", "sent"}

VerifyCalls(n, id, outcome) ==
    <<[op |-> "update_user", id |-> id, payload |-> [emailVerified |-> FALSE],
       ok |-> outcome # "update_failed", at |-> <<"roster", n>>]>>
    \o (IF outcome = "update_failed" THEN <<>>
        ELSE <<[op |-> "send_verify_email", id |-> id, payload |-> <<>>,
                ok |-> outcome = "sent", at |-> <<"roster", n>>]>>)

\* the matched branch of the loop body
CliUpdate(n, existing_user, user) ==
    /\ plan' = Add(plan, "update", n)
    /\ IF dry_run
       THEN UNCHANGED <<calls, provider>>
       ELSE \E ok \in BOOLEAN :
               LET update == [op |-> "update_user", id |-> existing_user.id,
                              payload |-> CliUpdatePayload(user), ok |-> ok,
                              at |-> <<"roster", n>>]
                   updated == ProviderUpdate(provider, existing_user.id,
                                             CliUpdatePayload(user))
               IN  IF ~ok
                   THEN calls' = Append(calls, update) /\ UNCHANGED provider
                   ELSE IF existing_user.emailVerified
                        THEN calls' = Append(calls, update) /\ provider' = updated
                        ELSE \E outcome \in VerifyOutcomes :
                                /\ calls' = Append(calls, update)
                                              \o VerifyCalls(n, existing_user.id, outcome)
                                /\ provider' =
                                     IF outcome = "update_failed" THEN updated
                                     ELSE ProviderUpdate(updated, existing_user.id,
                                                         [emailVerified |-> FALSE])

\* the unmatched branch of the loop body
CliCreate(n, user) ==
    /\ plan' = Add(plan, "create", n)
    /\ IF dry_run
       THEN UNCHANGED <<calls, provider>>
       ELSE \E ok \in BOOLEAN :
               LET create == [op |-> "create_user", id |-> NewId(provider),
                              payload |-> CliCreatePayload(user), ok |-> ok,
                              at |-> <<"roster", n>>]
               IN  IF ok
                   THEN \E sent \in BOOLEAN :
                           /\ calls' = calls \o <<create,
                                          [op |-> "send_verify_email", id |-> NewId(provider),
                                           payload |-> <<>>, ok |-> sent,
                                           at |-> <<"roster", n>>]>>
                           /\ provider' = ProviderCreate(provider, CliCreatePayload(user))
                   ELSE calls' = Append(calls, create) /\ UNCHANGED provider

CliSyncUser ==
    /\ command = "cli_sync"
    /\ pc = "sync"
    /\ i < Len(excel_users)
    /\ LET user == excel_users[i + 1]
       IN  IF ~Truthy(user.username) \/ ~Truthy(user.email)
           THEN UNCHANGED <<calls, provider, plan>>
           ELSE IF user.email \in DOMAIN keycloak_users_by_email
                THEN CliUpdate(i + 1, keycloak_users_by_email[user.email], user)
                ELSE CliCreate(i + 1, user)
    /\ i' = i + 1
    /\ pc' = IF i + 1 < Len(excel_users) THEN "sync"
             ELSE IF Len(keycloak_users) = 0 THEN "done" ELSE "disable"
    /\ UNCHANGED <<command, dry_run, email, parsed, initial_accounts, excel_users, membership, keycloak_users,
                   keycloak_users_by_email, j, aborted>>
    /\ UNCHANGED previous_runs
    /\ UNCHANGED <<parse_vars, name_vars>>

CliDisableUser ==
    /\ command = "cli_sync"
    /\ pc = "disable"
    /\ j < Len(keycloak_users)
    /\ LET kc_user == keycloak_users[j + 1]
       IN  IF SkipsDisable(kc_user)
           THEN UNCHANGED <<calls, provider, plan>>
           ELSE /\ plan' = Add(plan, "disable", kc_user.id)
                /\ IF ~dry_run /\ kc_user.id # 0
                   THEN \E ok \in BOOLEAN :
                           /\ calls' = Append(calls,
                                              [op |-> "update_user", id |-> kc_user.id,
                                               payload |-> [enabled |-> FALSE], ok |-> ok,
                                               at |-> <<"account", j + 1>>])
                           /\ provider' = IF ok
                                          THEN ProviderUpdate(provider, kc_user.id,
                                                              [enabled |-> FALSE])
                                          ELSE provider
                   ELSE UNCHANGED <<calls, provider>>
    /\ j' = j + 1
    /\ pc' = IF j + 1 < Len(keycloak_users) THEN "disable" ELSE "done"
    /\ UNCHANGED <<command, dry_run, email, parsed, initial_accounts, excel_users, membership, keycloak_users,
                   keycloak_users_by_email, i, aborted>>
    /\ UNCHANGED previous_runs
    /\ UNCHANGED <<parse_vars, name_vars>>


Next ==
    \/ Start
    \/ Connect
    \/ ListUsers
    \/ SyncUser
    \/ DisableUser
    \/ CliStart
    \/ CliConnect
    \/ CliListUsers
    \/ CliSyncUser
    \/ CliDisableUser

Spec == Init /\ [][Next]_vars

----------------------------------------------------------------------------
(* Two runs of commands/sync.py: sync on the same roster, without --dry-run *)
(* and without --email                                                      *)

TwiceInit ==
    /\ Init
    /\ command = "sync" /\ ~dry_run /\ email = None

\* the command is started again with the same roster, after a run that reached
\* its end with every provider call successful: the provider keeps its accounts
Rerun ==
    /\ pc = "done" /\ aborted = None
    /\ previous_runs = <<>>
    /\ \A c \in DOMAIN calls : calls[c].ok
    /\ previous_runs' = <<[calls |-> calls, plan |-> plan]>>
    /\ pc' = "start"
    /\ excel_users' = parsed
    /\ initial_accounts' = provider
    /\ keycloak_users' = <<>>
    /\ keycloak_users_by_email' = <<>>
    /\ i' = 0
    /\ j' = 0
    /\ calls' = <<>>
    /\ plan' = NoPlan
    /\ UNCHANGED <<command, dry_run, email, parsed, provider, membership, aborted>>
    /\ UNCHANGED <<parse_vars, name_vars>>

TwiceNext ==
    \/ Start
    \/ Connect
    \/ ListUsers
    \/ SyncUser
    \/ DisableUser
    \/ Rerun

SpecTwice == TwiceInit /\ [][TwiceNext]_vars

----------------------------------------------------------------------------
(* Python strings and worksheet cells *)

\* a Python str is the sequence of its characters
Whitespace == {" "}

Digits == <<"0", "1", "2", "3", "4", "5", "6", "7", "8", "9">>

UpperCase == <<"A", "B", "C", "D", "E", "F", "G", "H", "I", "J", "K", "L", "M",
               "N", "O", "P", "Q", "R", "S", "T", "U", "V", "W", "X", "Y", "Z">>

LowerCase == <<"a", "b", "c", "d", "e", "f", "g", "h", "i", "j", "k", "l", "m",
               "n", "o", "p", "q", "r", "s", "t", "u", "v", "w", "x", "y", "z">>

Range(f) == { f[k] : k \in DOMAIN f }

Letter == Range(UpperCase) \cup Range(LowerCase)

Min(S) == CHOOSE x \in S : \A y \in S : x <= y

Max(S) == CHOOSE x \in S : \A y \in S : y <= x

\* str.strip()
Strip(s) ==
    LET kept == { k \in DOMAIN s : s[k] \notin Whitespace }
    IN  IF kept = {} THEN <<>> ELSE SubSeq(s, Min(kept), Max(kept))

\* str.lower()
Lower(s) ==
    [k \in DOMAIN s |->
        IF s[k] \in Range(UpperCase)
        THEN LowerCase[CHOOSE n \in DOMAIN UpperCase : UpperCase[n] = s[k]]
        ELSE s[k]]

\* `sub in s`
Contains(s, sub) ==
    \E k \in 0..(Len(s) - Len(sub)) : SubSeq(s, k + 1, k + Len(sub)) = sub

\* str.split(): the maximal runs of non-whitespace characters, in order
Split(s) ==
    LET starts == { k \in DOMAIN s : s[k] \notin Whitespace
                                     /\ (k = 1 \/ s[k - 1] \in Whitespace) }
        EndOf(k) == Min({ e \in k..Len(s) : e = Len(s) \/ s[e + 1] \in Whitespace })
        Nth(n) == CHOOSE k \in starts : Cardinality({ x \in starts : x < k }) = n - 1
    IN  [n \in 1..Cardinality(starts) |-> SubSeq(s, Nth(n), EndOf(Nth(n)))]

\* the decimal text of a natural number, as str() and %d give it
RECURSIVE DecimalText(_)
DecimalText(n) ==
    IF n < 10 THEN <<Digits[n + 1]>>
    ELSE Append(DecimalText(n \div 10), Digits[(n % 10) + 1])

\* a number zero-padded to two characters, as %d and %m of strftime give it
TwoDigits(n) == IF n < 10 THEN <<"0">> \o DecimalText(n) ELSE DecimalText(n)

\* the value of an openpyxl cell: None, a str, an int, a datetime.datetime or a
\* datetime.time (a cell with a time-of-day number format)
EmptyCell == [t |-> "none", s |-> <<>>, day |-> 0, month |-> 0, year |-> 0]

StrCell(s) == [t |-> "str", s |-> s, day |-> 0, month |-> 0, year |-> 0]

IntCell(n) == [t |-> "int", s |-> DecimalText(n), day |-> 0, month |-> 0, year |-> 0]

DateTimeCell(d, m, y) == [t |-> "datetime", s |-> <<>>, day |-> d, month |-> m, year |-> y]

\* datetime.time(9, 30), with the text str() gives for it
TimeCell ==
    [t |-> "time", s |-> <<"0", "9", ":", "3", "0", ":", "0", "0">>,
     day |-> 0, month |-> 0, year |-> 0]

\* `if cell.value`
CellTruthy(cell) ==
    \/ cell.t = "str" /\ cell.s # <<>>
    \/ cell.t = "int" /\ cell.s # <<"0">>
    \/ cell.t = "datetime"
    \/ cell.t = "time"

\* value.strftime("%d.%m.%Y")
Strftime(cell) ==
    TwoDigits(cell.day) \o <<".">> \o TwoDigits(cell.month) \o <<".">> \o DecimalText(cell.year)

\* str(cell.value); a datetime prints as "YYYY-MM-DD 00:00:00"
PyStr(cell) ==
    CASE cell.t = "str" -> cell.s
      [] cell.t = "int" -> cell.s
      [] cell.t = "time" -> cell.s
      [] cell.t = "datetime" ->
            DecimalText(cell.year) \o <<"-">> \o TwoDigits(cell.month) \o <<"-">>
            \o TwoDigits(cell.day) \o <<" ", "0", "0", ":", "0", "0", ":", "0", "0">>
      [] OTHER -> <<"N", "o", "n", "e">>

\* None among values that are character sequences
PyNone == <<None>>

(* utils/column_detection: the patterns *)

\* re.match(r"^[a-zA-Z0-9._%+-]+@[a-zA-Z0-9.-]+\.[a-zA-Z]{2,}$", s)
email_pattern(s) ==
    \E at \in DOMAIN s : \E dot \in DOMAIN s :
        /\ s[at] = "@" /\ s[dot] = "."
        /\ 1 < at /\ at + 1 < dot /\ dot + 2 <= Len(s)
        /\ \A k \in 1..(at - 1) :
              s[k] \in Letter \cup Range(Digits) \cup {".", "_", "%", "+", "-"}
        /\ \A k \in (at + 1)..(dot - 1) : s[k] \in Letter \cup Range(Digits) \cup {".", "-"}
        /\ \A k \in (dot + 1)..Len(s) : s[k] \in Letter

\* re.match(r"^\s*\S+\s+\S+.*$", s): two words or more
name_pattern(s) ==
    \E k \in DOMAIN s :
        /\ s[k] \in Whitespace
        /\ \E b \in 1..(k - 1) : s[b] \notin Whitespace
        /\ \E a \in (k + 1)..Len(s) : s[a] \notin Whitespace

\* re.match(r"^\d{1,2}\.\d{1,2}\.\d{4}$", s)
date_pattern(s) ==
    \E d1 \in DOMAIN s : \E d2 \in DOMAIN s :
        /\ s[d1] = "." /\ s[d2] = "."
        /\ d1 \in {2, 3} /\ d2 - d1 \in {2, 3} /\ Len(s) = d2 + 4
        /\ \A k \in DOMAIN s \ {d1, d2} : s[k] \in Range(Digits)

(* utils/column_detection: the detectors *)

\* A worksheet is the sequence of its rows, a row the sequence of its cells, all
\* rows of one width.  Rows and columns are numbered from 1; the code's 0-based
\* col_idx is the column number less one.  NoColumn stands for a detector's None.
NoColumn == 0

\* ws.max_row or 1
MaxRowOf(ws) == IF Len(ws) = 0 THEN 1 ELSE Len(ws)

Width(ws) == IF Len(ws) = 0 THEN 0 ELSE Len(ws[1])

\* range(1, min(11, max_row + 1)) scans ten rows at most
HeaderScanEnd == 11

\* min(data_start_row + 19, max_row): twenty data rows at most are sampled
SampleSpan == 19

\* str(cell.value) if cell.value is not None else ""
HeaderText(cell) == IF cell.t = "none" THEN <<>> ELSE PyStr(cell)

BricklinkText == <<"b", "r", "i", "c", "k", "l", "i", "n", "k">>

DiscordText == <<"d", "i", "s", "c", "o", "r", "d">>

EronnutText == <<"e", "r", "o", "n", "n", "u", "t">>

\* detect_header_row(ws): the first of the scanned rows with a cell that holds
\* "bricklink" in any letter case, row 1 when there is none
detect_header_row(ws) ==
    LET scanned == 1..(Min({HeaderScanEnd, MaxRowOf(ws) + 1}) - 1)
        found == { r \in scanned \cap DOMAIN ws :
                     \E c \in DOMAIN ws[r] :
                        /\ HeaderText(ws[r][c]) # <<>>
                        /\ Contains(Lower(HeaderText(ws[r][c])), BricklinkText) }
    IN  IF found = {} THEN 1 ELSE Min(found)

\* the header list of parse_excel_users
Header(ws, header_row_num) ==
    IF header_row_num \in DOMAIN ws
    THEN [c \in DOMAIN ws[header_row_num] |-> HeaderText(ws[header_row_num][c])]
    ELSE <<>>

\* min(data_start_row + 19, ws.max_row or data_start_row)
SampleLast(ws, header_row_num) ==
    Min({header_row_num + 1 + SampleSpan,
         IF Len(ws) = 0 THEN header_row_num + 1 ELSE Len(ws)})

\* the rows iter_rows yields for the sample
SampleRows(ws, header_row_num) == (header_row_num + 1)..SampleLast(ws, header_row_num)

\* A Python dict of counts is the sequence of its <<key, count>> items in
\* insertion order.
\* max over the keys that returns the first key of the dict, whatever its count
MaxKey_FirstKey(counts) == counts[1][1]

\* max over the keys that returns the lowest key among those of maximal count
MaxKey_LowestIndex(counts) ==
    LET best == Max({ counts[k][2] : k \in DOMAIN counts })
    IN  Min({ counts[k][1] : k \in { n \in DOMAIN counts : counts[n][2] = best } })

\* max(counts, key=lambda k: counts[k]): the first key, in the iteration order of
\* the dict, whose count is the largest
MaxKey(counts) ==
    LET best == Max({ counts[k][2] : k \in DOMAIN counts })
    IN  counts[Min({ k \in DOMAIN counts : counts[k][2] = best })][1]

\* The dict a detector's counting loop builds from the cells `hits` it counts.
\* The loop goes through the sampled rows top down and through the cells of a
\* row left to right, and does counts[col_idx] = counts.get(col_idx, 0) + 1 at
\* each counted cell: a key enters the dict at the first counted cell of its
\* column, so the keys stand in the order of those cells, and a key's count is
\* the number of counted cells of its column.
Tally(hits) ==
    LET keys == { p[2] : p \in hits }
        RowsOf(c) == { p[1] : p \in { q \in hits : q[2] = c } }
        Earlier(d, c) == \/ Min(RowsOf(d)) < Min(RowsOf(c))
                         \/ Min(RowsOf(d)) = Min(RowsOf(c)) /\ d < c
        KeyAt(n) == CHOOSE c \in keys : Cardinality({ d \in keys : Earlier(d, c) }) = n - 1
    IN  [n \in 1..Cardinality(keys) |-> <<KeyAt(n), Cardinality(RowsOf(KeyAt(n)))>>] \o <<>>

\* the cells of the sample
SampleCells(ws, header_row_num) ==
    { <<r, c>> \in (SampleRows(ws, header_row_num) \cap DOMAIN ws) \X (1..Width(ws)) : TRUE }

\* the cell counts for detect_email_column
EmailHit(cell) ==
    /\ CellTruthy(cell) /\ cell.t = "str"
    /\ \E text \in {Strip(cell.s)} : email_pattern(text)

\* the cell counts for detect_name_column
NameHit(cell) ==
    /\ CellTruthy(cell) /\ cell.t = "str"
    /\ \E text \in {Strip(cell.s)} : name_pattern(text)

\* the cell counts for detect_date_columns: a date text or a value with strftime
DateHit(cell) ==
    /\ CellTruthy(cell)
    /\ \/ cell.t = "str" /\ \E text \in {Strip(cell.s)} : date_pattern(text)
       \/ cell.t \in {"datetime", "time"}

column_email_counts(ws, header_row_num) ==
    Tally({ p \in SampleCells(ws, header_row_num) : EmailHit(ws[p[1]][p[2]]) })

\* detect_email_column(ws, header, header_row_num)
detect_email_column(ws, header_row_num) ==
    CHOOSE col \in { IF counts # <<>> THEN MaxKey(counts) ELSE NoColumn :
                        counts \in {column_email_counts(ws, header_row_num)} } : TRUE

column_name_counts(ws, email_col_idx, header_row_num) ==
    Tally({ p \in SampleCells(ws, header_row_num) :
              p[2] # email_col_idx /\ NameHit(ws[p[1]][p[2]]) })

\* detect_name_column(ws, header, email_col_idx, header_row_num)
detect_name_column(ws, email_col_idx, header_row_num) ==
    CHOOSE col \in { IF counts # <<>> THEN MaxKey(counts) ELSE NoColumn :
                        counts \in {column_name_counts(ws, email_col_idx, header_row_num)} } : TRUE

column_date_counts(ws, skip_col_indices, header_row_num) ==
    Tally({ p \in SampleCells(ws, header_row_num) :
              p[2] \notin skip_col_indices /\ DateHit(ws[p[1]][p[2]]) })

\* sorted(col_idx for col_idx, count in column_date_counts.items() if count > 0)
date_columns(ws, skip_col_indices, header_row_num) ==
    LET counts == column_date_counts(ws, skip_col_indices, header_row_num)
    IN  { counts[k][1] : k \in { n \in DOMAIN counts : counts[n][2] > 0 } }

\* detect_date_columns that takes the last date column for the expiration date
detect_date_columns_FirstAndLast(ws, skip_col_indices, header_row_num) ==
    LET found == date_columns(ws, skip_col_indices, header_row_num)
    IN  <<IF Cardinality(found) >= 1 THEN Min(found) ELSE NoColumn,
          IF Cardinality(found) >= 2 THEN Max(found) ELSE NoColumn>>

\* detect_date_columns(ws, header, skip_col_indices, header_row_num):
\* <<effective_date_col, expiration_date_col>>
detect_date_columns(ws, skip_col_indices, header_row_num) ==
    LET found == date_columns(ws, skip_col_indices, header_row_num)
    IN  <<IF Cardinality(found) >= 1 THEN Min(found) ELSE NoColumn,
          IF Cardinality(found) >= 2 THEN Min(found \ {Min(found)}) ELSE NoColumn>>

\* detect_column_by_name(header, search_term)
detect_column_by_name(header, search_term) ==
    LET found == { c \in DOMAIN header :
                     header[c] # <<>> /\ Contains(Lower(header[c]), Lower(search_term)) }
    IN  IF found = {} THEN NoColumn ELSE Min(found)

(* utils/name_parsing.py *)

\* parse_name_field that takes the second part for the last name
parse_name_field_SecondAsLast(name_str) ==
    LET parts == Split(Strip(name_str))
    IN  IF name_str = PyNone \/ name_str = <<>> THEN <<PyNone, PyNone>>
        ELSE IF Len(parts) >= 2 THEN <<parts[1], parts[2]>>
        ELSE IF Len(parts) = 1 THEN <<parts[1], PyNone>>
        ELSE <<PyNone, PyNone>>

\* parse_name_field(name_str): <<first_name, last_name>>
parse_name_field(name_str) ==
    LET parts == Split(Strip(name_str))
    IN  IF name_str = PyNone \/ name_str = <<>> THEN <<PyNone, PyNone>>
        ELSE IF Len(parts) >= 2 THEN <<parts[1], parts[Len(parts)]>>
        ELSE IF Len(parts) = 1 THEN <<parts[1], PyNone>>
        ELSE <<PyNone, PyNone>>

(* types.py: User.email is an EmailStr *)

\* EmailStr validation as far as the model's texts exercise it: one "@", a local
\* part and a dotted domain of the characters of an address, no leading dot and
\* no two dots in a row
EmailStrAccepts(s) ==
    /\ email_pattern(s)
    /\ Cardinality({ k \in DOMAIN s : s[k] = "@" }) = 1
    /\ s[1] # "."
    /\ ~Contains(s, <<".", ".">>)

\* the value EmailStr stores: the address with its domain in lower case
EmailStrValue(s) ==
    LET at == CHOOSE k \in DOMAIN s : s[k] = "@"
    IN  SubSeq(s, 1, at) \o Lower(SubSeq(s, at + 1, Len(s)))

----------------------------------------------------------------------------
(* utils/excel_parsing.py *)

\* should_skip_row without .lower()
should_skip_row_CaseSensitive(row) ==
    \E c \in DOMAIN row :
        /\ CellTruthy(row[c]) /\ row[c].t = "str"
        /\ Contains(row[c].s, EronnutText)

\* should_skip_row(row)
should_skip_row(row) ==
    \E c \in DOMAIN row :
        /\ CellTruthy(row[c]) /\ row[c].t = "str"
        /\ Contains(Lower(row[c].s), EronnutText)

\* row[col_idx] when the column was detected and lies within the row, with a
\* truthy value
HasValue(row, col) == col # NoColumn /\ col <= Len(row) /\ CellTruthy(row[col])

\* str(cell.value).strip() if the cell has a value, else None
TextAt(row, col) == IF HasValue(row, col) THEN Strip(PyStr(row[col])) ELSE PyNone

\* the date text of a cell: the stripped str, the formatted datetime, else None
DateAt(row, col) ==
    IF ~HasValue(row, col) THEN PyNone
    ELSE IF row[col].t = "str" THEN Strip(row[col].s)
    ELSE IF row[col].t = "datetime" THEN Strftime(row[col])
    ELSE PyNone

\* `if not email`
NoEmail(email_text) == email_text = PyNone \/ email_text = <<>>

\* the keyword arguments of User(...) for a row
RowUser(row, row_number, cols) ==
    LET full_name == TextAt(row, cols.name)
        names == IF full_name = PyNone THEN <<PyNone, PyNone>>
                 ELSE parse_name_field(full_name)
    IN  [username |-> row_number,
         email |-> TextAt(row, cols.email),
         firstName |-> names[1],
         lastName |-> names[2],
         fullName |-> full_name,
         hometown |-> TextAt(row, cols.hometown),
         effectiveDate |-> DateAt(row, cols.effective_date),
         expirationDate |-> DateAt(row, cols.expiration_date),
         discord |-> TextAt(row, cols.discord),
         bricklink |-> TextAt(row, cols.bricklink)]

NoColumns ==
    [email |-> NoColumn, name |-> NoColumn, hometown |-> NoColumn,
     effective_date |-> NoColumn, expiration_date |-> NoColumn,
     discord |-> NoColumn, bricklink |-> NoColumn]

(* Worksheets of the model *)

Blank == StrCell(<<" ", " ">>)

\* the header row of a membership sheet: Email, Name, Town, From, To, Discord, Bricklink
MemberHeader ==
    <<StrCell(<<"E", "m", "a", "i", "l">>), StrCell(<<"N", "a", "m", "e">>),
      StrCell(<<"T", "o", "w", "n">>), StrCell(<<"F", "r", "o", "m">>),
      StrCell(<<"T", "o">>), StrCell(<<"D", "i", "s", "c", "o", "r", "d">>),
      StrCell(<<"B", "r", "i", "c", "k", "L", "i", "n", "k">>)>>

\* a title row above the header
MemberTitle ==
    <<StrCell(<<"M", "e", "m", "b", "e", "r", "s">>), EmptyCell, EmptyCell, EmptyCell,
      EmptyCell, EmptyCell, EmptyCell>>

AdaMail == <<"a", "@", "x", ".", "f", "i">>

BoMail == <<"b", "@", "X", ".", "F", "I">>

CyMail == <<"c", "@", "x", ".", "f", "i">>

\* a member with every column filled, the first date as a native date
MemberAda ==
    <<StrCell(AdaMail), StrCell(<<"A", "d", "a", " ", "K", "i", "n", "g">>),
      StrCell(<<"O", "u", "l", "u">>), DateTimeCell(5, 3, 2024),
      StrCell(<<"1", ".", "2", ".", "2", "0", "2", "5">>),
      StrCell(<<"a", "d", "a", "#", "1">>), StrCell(<<"a", "d", "a">>)>>

\* a member whose cells carry surrounding spaces or nothing but spaces
MemberBo ==
    <<StrCell(<<" ">> \o BoMail \o <<" ">>), StrCell(<<" ", "B", "o", " ", " ", "E", "k", " ">>),
      Blank, StrCell(<<" ", "7", ".", "1", "0", ".", "2", "0", "2", "4">>), Blank,
      EmptyCell, StrCell(<<"b", "o", " ">>)>>

\* a member whose name and discord cells hold spaces only and whose bricklink
\* cell holds a number
MemberCy ==
    <<StrCell(CyMail), Blank, EmptyCell, EmptyCell, EmptyCell, Blank, IntCell(42)>>

\* a member whose town cell holds a date text, whose first date is a native
\* time of day and whose discord cell holds a date text too
MemberDi ==
    <<StrCell(<<"d", "@", "x", ".", "f", "i">>), StrCell(<<"D", "i">>),
      StrCell(<<"1", ".", "1", ".", "2", "0", "2", "0">>), TimeCell,
      StrCell(<<"2", ".", "2", ".", "2", "0", "2", "2">>),
      StrCell(<<"3", ".", "3", ".", "2", "0", "2", "3">>), EmptyCell>>

\* resigned members: the mark in lower, upper and mixed case, in different cells
ResignedLower ==
    <<StrCell(AdaMail), StrCell(<<"A", "l", " ", "B", "o">>),
      StrCell(<<"e", "r", "o", "n", "n", "u", "t">>), EmptyCell, EmptyCell, EmptyCell, EmptyCell>>

ResignedUpper ==
    <<StrCell(CyMail), StrCell(<<"C", "y", " ", "E", "R", "O", "N", "N", "U", "T", "!">>),
      EmptyCell, EmptyCell, EmptyCell, EmptyCell, EmptyCell>>

ResignedMixed ==
    <<StrCell(AdaMail), EmptyCell, EmptyCell, EmptyCell, EmptyCell, EmptyCell,
      StrCell(<<"x", "E", "r", "o", "N", "n", "u", "T">>)>>

\* rows without a usable email: no cell value, spaces only, a text that is no address
NoMail ==
    <<EmptyCell, StrCell(<<"D", "i", " ", "E", "k">>), StrCell(<<"O", "u", "l", "u">>),
      EmptyCell, EmptyCell, EmptyCell, EmptyCell>>

BlankMail ==
    <<Blank, StrCell(<<"D", "i", " ", "E", "k">>), EmptyCell, EmptyCell, EmptyCell,
      EmptyCell, EmptyCell>>

BadMail ==
    <<StrCell(<<"a", ".", ".", "b", "@", "x", ".", "f", "i">>),
      StrCell(<<"D", "i", " ", "E", "k">>), EmptyCell, EmptyCell, EmptyCell, EmptyCell,
      EmptyCell>>

MemberRows ==
    {MemberAda, MemberBo, MemberCy, MemberDi, ResignedLower, ResignedUpper, ResignedMixed,
     NoMail, BlankMail, BadMail}

\* rows of a three-column sheet whose columns compete for the detectors
PlainHeader == <<StrCell(<<"A">>), StrCell(<<"B">>), StrCell(<<"C">>)>>

NameText == StrCell(<<"A", "l", " ", "B", "o">>)

MailFirst == <<StrCell(AdaMail), EmptyCell, NameText>>

MailSecond == <<EmptyCell, StrCell(CyMail), NameText>>

MailBoth == <<StrCell(AdaMail), StrCell(CyMail), EmptyCell>>

NameFirst == <<NameText, StrCell(CyMail), EmptyCell>>

RivalRows == {MailFirst, MailSecond, MailBoth, NameFirst}

\* nonempty sequences of at most n elements of S
RowsUpTo(S, n) == UNION { [1..m -> S] : m \in 1..n }

MemberSheets ==
    { <<MemberHeader>> \o rows : rows \in RowsUpTo(MemberRows, MaxRows) }
    \cup { <<MemberTitle, MemberHeader>> \o rows : rows \in RowsUpTo(MemberRows, MaxRows) }
    \cup { <<MemberHeader>> }

RivalSheets == { <<PlainHeader>> \o rows : rows \in RowsUpTo(RivalRows, MaxRivalRows) }

\* a row without an address
NameOnly == <<EmptyCell, EmptyCell, NameText>>

\* sheets longer than the sample: seventeen rows with an address in two columns
\* and one without any, then rows in which the columns differ
LongSheets ==
    { <<PlainHeader>> \o [k \in 1..17 |-> MailBoth] \o <<NameOnly>> \o rows :
        rows \in RowsUpTo({MailFirst, MailSecond}, MaxRivalRows) }

\* what load_workbook(file_path) and wb.active give for the file
Unreadable == [readable |-> FALSE, active |-> FALSE, ws |-> <<>>]

NoActiveSheet == [readable |-> TRUE, active |-> FALSE, ws |-> <<>>]

Workbook(ws) == [readable |-> TRUE, active |-> TRUE, ws |-> ws]

Files ==
    {Unreadable, NoActiveSheet} \cup { Workbook(ws) : ws \in MemberSheets \cup RivalSheets \cup LongSheets }

(* parse_excel_users(file_path) *)

\* no sync command runs
SyncNotRun ==
    /\ command = "sync" /\ dry_run = FALSE /\ email = None
    /\ parsed = <<>> /\ excel_users = <<>> /\ provider = <<>> /\ initial_accounts = <<>>
    /\ membership = {} /\ keycloak_users = <<>> /\ keycloak_users_by_email = <<>>
    /\ pc = "done" /\ i = 0 /\ j = 0 /\ calls = <<>> /\ plan = NoPlan /\ aborted = None
    /\ previous_runs = <<>>

ParseInit ==
    /\ file \in Files
    /\ ppc = "load"
    /\ header_row = 0
    /\ col_idx = NoColumns
    /\ row_idx = 0
    /\ parsed_users = <<>>
    /\ returned = <<>>
    /\ exceptions = <<>>
    /\ SyncNotRun
    /\ NameParserNotRun

\* the outer handler that lets the exception through
OuterExcept_Reraises ==
    /\ ppc' = "raised"
    /\ returned' = returned

\* `except Exception as e: logger.error(...)` followed by `return users`
OuterExcept ==
    /\ ppc' = "returned"
    /\ returned' = parsed_users

\* the row handler that lets the exception through to the outer handler
InnerExcept_Propagates ==
    /\ OuterExcept
    /\ UNCHANGED <<row_idx, parsed_users>>

\* `except Exception as e: logger.warning(...)` inside the loop: on to the next row
InnerExcept ==
    /\ row_idx' = row_idx + 1
    /\ UNCHANGED <<ppc, returned, parsed_users>>

\* load_workbook(file_path); ws = wb.active; `if ws is None: return []`
LoadWorkbook ==
    /\ ppc = "load"
    /\ IF ~file.readable
       THEN /\ exceptions' = Append(exceptions, "load_workbook")
            /\ OuterExcept
       ELSE /\ UNCHANGED exceptions
            /\ IF ~file.active
               THEN ppc' = "returned" /\ returned' = <<>>
               ELSE ppc' = "header" /\ UNCHANGED returned
    /\ UNCHANGED <<file, header_row, col_idx, row_idx, parsed_users>>
    /\ UNCHANGED <<sync_vars, name_vars>>

\* header_row_num = detect_header_row(ws)
DetectHeaderRow ==
    /\ ppc = "header"
    /\ header_row' = detect_header_row(file.ws)
    /\ ppc' = "email"
    /\ UNCHANGED <<file, col_idx, row_idx, parsed_users, returned, exceptions>>
    /\ UNCHANGED <<sync_vars, name_vars>>

\* email_col_idx = detect_email_column(...); `if email_col_idx is None: return []`
DetectEmailColumn ==
    /\ ppc = "email"
    /\ col_idx' = [col_idx EXCEPT !.email = detect_email_column(file.ws, header_row)]
    /\ IF col_idx'.email = NoColumn
       THEN ppc' = "returned" /\ returned' = <<>>
       ELSE ppc' = "name" /\ UNCHANGED returned
    /\ UNCHANGED <<file, header_row, row_idx, parsed_users, exceptions>>
    /\ UNCHANGED <<sync_vars, name_vars>>

\* name_col_idx = detect_name_column(...); the hometown column is the next one
DetectNameColumn ==
    /\ ppc = "name"
    /\ \E name_col_idx \in {detect_name_column(file.ws, col_idx.email, header_row)} :
          col_idx' = [col_idx EXCEPT
                         !.name = name_col_idx,
                         !.hometown = IF name_col_idx # NoColumn THEN name_col_idx + 1
                                      ELSE NoColumn]
    /\ ppc' = "dates"
    /\ UNCHANGED <<file, header_row, row_idx, parsed_users, returned, exceptions>>
    /\ UNCHANGED <<sync_vars, name_vars>>

\* skip_cols and detect_date_columns(ws, header, skip_cols, header_row_num)
DetectDateColumns ==
    /\ ppc = "dates"
    /\ \E dates \in {detect_date_columns(
                          file.ws, {col_idx.email, col_idx.name, col_idx.hometown} \ {NoColumn},
                          header_row)} :
          col_idx' = [col_idx EXCEPT !.effective_date = dates[1],
                                     !.expiration_date = dates[2]]
    /\ ppc' = "named"
    /\ UNCHANGED <<file, header_row, row_idx, parsed_users, returned, exceptions>>
    /\ UNCHANGED <<sync_vars, name_vars>>

\* detect_column_by_name(header, "discord") and (header, "bricklink"); data_start_row
DetectNamedColumns ==
    /\ ppc = "named"
    /\ \E header \in {Header(file.ws, header_row)} :
          col_idx' = [col_idx EXCEPT !.discord = detect_column_by_name(header, DiscordText),
                                     !.bricklink = detect_column_by_name(header, BricklinkText)]
    /\ row_idx' = header_row + 1
    /\ ppc' = "rows"
    /\ UNCHANGED <<file, header_row, parsed_users, returned, exceptions>>
    /\ UNCHANGED <<sync_vars, name_vars>>

\* one iteration of `for row_idx, row in enumerate(ws.iter_rows(...))`
ParseRow ==
    /\ ppc = "rows"
    /\ row_idx <= Len(file.ws)
    /\ \E user \in {RowUser(file.ws[row_idx], row_idx, col_idx)} :
          IF should_skip_row(file.ws[row_idx]) \/ NoEmail(user.email)
          THEN /\ row_idx' = row_idx + 1
               /\ UNCHANGED <<ppc, parsed_users, returned, exceptions>>
          ELSE IF EmailStrAccepts(user.email)
          THEN /\ parsed_users' = Append(parsed_users,
                                         [user EXCEPT !.email = EmailStrValue(user.email)])
               /\ row_idx' = row_idx + 1
               /\ UNCHANGED <<ppc, returned, exceptions>>
          ELSE /\ exceptions' = Append(exceptions, "validation")
               /\ InnerExcept
    /\ UNCHANGED <<file, header_row, col_idx>>
    /\ UNCHANGED <<sync_vars, name_vars>>

\* the loop is over: `return users`
ReturnUsers ==
    /\ ppc = "rows"
    /\ row_idx > Len(file.ws)
    /\ ppc' = "returned"
    /\ returned' = parsed_users
    /\ UNCHANGED <<file, header_row, col_idx, row_idx, parsed_users, exceptions>>
    /\ UNCHANGED <<sync_vars, name_vars>>

ParseNext ==
    \/ LoadWorkbook
    \/ DetectHeaderRow
    \/ DetectEmailColumn
    \/ DetectNameColumn
    \/ DetectDateColumns
    \/ DetectNamedColumns
    \/ ParseRow
    \/ ReturnUsers

SpecParse == ParseInit /\ [][ParseNext]_vars

----------------------------------------------------------------------------
(* utils/name_parsing.py: one call of parse_name_field *)

\* the arguments: None and the texts of two letters and the space
NameInputs ==
    {PyNone} \cup UNION { [1..m -> {"a", "b", " "}] : m \in 0..MaxNameLen }

NameInit ==
    /\ name_input \in NameInputs
    /\ name_result = <<>>
    /\ SyncNotRun
    /\ ParserNotRun

\* parse_name_field(name_str) returns
ParseNameField ==
    /\ name_result = <<>>
    /\ name_result' = parse_name_field(name_input)
    /\ UNCHANGED name_input
    /\ UNCHANGED <<sync_vars, parse_vars>>

NameNext == ParseNameField

SpecName == NameInit /\ [][NameNext]_vars

----------------------------------------------------------------------------
(* Properties *)

\* the run reached its end without an early return
Finished == pc = "done" /\ aborted = None

\* update_user(id, {"enabled": False})
IsDisable(c) ==
    c.op = "update_user" /\ "enabled" \in DOMAIN c.payload /\ c.payload.enabled = FALSE

\* a disable action for the account: reported by the run or sent to the provider
DisableActionFor(id) ==
    \/ id \in plan.disable
    \/ \E c \in DOMAIN calls : IsDisable(calls[c]) /\ calls[c].id = id

\* no roster record of the sheet has the account's email
AbsentFromRoster(account) ==
    \A k \in DOMAIN parsed : parsed[k].email # account.email

\* C1: in any run of either command, dry or not, whatever calls fail, no disable
\* action is reported or sent for an account whose username is "admin", and the
\* provider keeps the account's enabled flag
C1_AdminNeverDisabled ==
    \A k \in DOMAIN initial_accounts :
        initial_accounts[k].username = "admin" =>
            /\ ~DisableActionFor(initial_accounts[k].id)
            /\ provider[k].enabled = initial_accounts[k].enabled

\* a finished run without --email has walked the whole account list, disabled some
\* account, and met an "admin" that is absent from the roster and whose email is
\* not in PROTECTED_USERS
C1_Witness ==
    /\ Finished /\ ~Truthy(email) /\ ~dry_run
    /\ j = Len(keycloak_users)
    /\ \E c \in DOMAIN calls : IsDisable(calls[c])
    /\ \E k \in DOMAIN initial_accounts :
          /\ initial_accounts[k].username = "admin"
          /\ Truthy(initial_accounts[k].email)
          /\ initial_accounts[k].email \notin PROTECTED_USERS
          /\ AbsentFromRoster(initial_accounts[k])

\* the accounts constants.py calls protected: the name or the email is listed
Protected(account) ==
    account.email \in PROTECTED_USERS \/ account.username \in PROTECTED_USERS

\* C2: no disable action is reported or sent for an account whose email or whose
\* username is in PROTECTED_USERS
C2_ProtectedNeverDisabled ==
    \A k \in DOMAIN initial_accounts :
        Protected(initial_accounts[k]) => ~DisableActionFor(initial_accounts[k].id)

\* C3: a dry run issues no provider mutation call and leaves the provider as it was
C3_DryRunMutatesNothing ==
    dry_run => /\ calls = <<>>
               /\ provider = initial_accounts
               /\ membership = {}

\* a finished dry run that reported a create, an update and a disable
C3_Witness ==
    /\ Finished /\ dry_run
    /\ plan.create # {} /\ plan.update # {} /\ plan.disable # {}

\* the roster has a record with the account's email, or the account one with the record's
HasMatch(user) ==
    \E k \in DOMAIN initial_accounts : initial_accounts[k].email = user.email

\* the last listed account with the record's email
MatchOf(user) ==
    LET last == CHOOSE k \in DOMAIN initial_accounts :
                    /\ initial_accounts[k].email = user.email
                    /\ \A n \in DOMAIN initial_accounts :
                          initial_accounts[n].email = user.email => n <= k
    IN  initial_accounts[last]

\* a difference update_existing_user reports between the account and the record
Deviates(account, user) ==
    \/ account.email # user.email
    \/ \E a \in AttrKeys : ExistingAttribute(account.attributes, a) # user[a]
    \/ (~Truthy(account.firstName) /\ Truthy(user.firstName))
    \/ (~Truthy(account.lastName) /\ Truthy(user.lastName))

\* the decisions of a run as its inputs alone determine them: the roster of the
\* run, the accounts listed at its start, the command and the --email option
ExpectedPlan ==
    [create |-> { n \in DOMAIN excel_users : ~HasMatch(excel_users[n]) },
     update |-> { n \in DOMAIN excel_users :
                    /\ HasMatch(excel_users[n])
                    /\ (command = "cli_sync"
                        \/ Deviates(MatchOf(excel_users[n]), excel_users[n])) },
     uptodate |-> { n \in DOMAIN excel_users :
                      /\ HasMatch(excel_users[n])
                      /\ command = "sync"
                      /\ ~Deviates(MatchOf(excel_users[n]), excel_users[n]) },
     disable |-> IF Truthy(email) THEN {}
                 ELSE { initial_accounts[k].id :
                          k \in { n \in DOMAIN initial_accounts :
                                    /\ Truthy(initial_accounts[n].email)
                                    /\ AbsentFromRoster(initial_accounts[n])
                                    /\ initial_accounts[n].email \notin PROTECTED_USERS
                                    /\ initial_accounts[n].username # "admin" } }]

\* C4: the create, update and disable sets a finished run has decided are those its
\* roster and the accounts listed at its start determine; they are the same for a
\* dry run and a real run, whichever provider calls failed on the way
C4_PlanIndependentOfDryRun ==
    Finished => plan = ExpectedPlan

\* a finished real run in which a provider call failed and that decided a create,
\* an update and a disable
C4_Witness ==
    /\ Finished /\ ~dry_run
    /\ \E c \in DOMAIN calls : ~calls[c].ok
    /\ plan.create # {} /\ plan.update # {} /\ plan.disable # {}

\* roster record n was handled as the expected plan says
HandledRecord(expected, n) ==
    /\ n \in expected.create =>
          /\ n \in plan.create
          /\ \E c \in DOMAIN calls :
                /\ calls[c].at = <<"roster", n>> /\ calls[c].op = "create_user"
                /\ calls[c].payload.email = excel_users[n].email
    /\ n \in expected.update =>
          /\ n \in plan.update
          /\ \E c \in DOMAIN calls :
                /\ calls[c].at = <<"roster", n>> /\ calls[c].op = "update_user"
                /\ calls[c].id = MatchOf(excel_users[n]).id
    /\ n \in expected.uptodate =>
          /\ n \in plan.uptodate
          /\ \A c \in DOMAIN calls : calls[c].at # <<"roster", n>>

\* listed account a was handled as the expected plan says
HandledAccount(expected, a) ==
    keycloak_users[a].id \in expected.disable
        <=> \E c \in DOMAIN calls :
               /\ calls[c].at = <<"account", a>> /\ IsDisable(calls[c])
               /\ calls[c].id = keycloak_users[a].id

\* C5: in a finished real run, after a provider call for roster record or account N
\* has failed, every later roster record and every later account (all accounts, if
\* N is a roster record) is handled as if the call had succeeded: as the plan that
\* the inputs of the run alone determine says
C5_FailureDoesNotStopTheRun ==
    (Finished /\ ~dry_run /\ \E m \in DOMAIN calls : ~calls[m].ok) =>
        \E expected \in {ExpectedPlan} :
            \A m \in DOMAIN calls :
                ~calls[m].ok =>
                    /\ \A n \in DOMAIN excel_users :
                          (calls[m].at[1] = "roster" /\ n > calls[m].at[2])
                              => HandledRecord(expected, n)
                    /\ ~Truthy(email) =>
                          \A a \in DOMAIN keycloak_users :
                              (calls[m].at[1] = "roster" \/ a > calls[m].at[2])
                                  => HandledAccount(expected, a)

\* a finished real run in which the call for the first roster record failed, a call
\* was made for the second record, and an account was disabled after a failed disable
C5_Witness ==
    /\ Finished /\ ~dry_run
    /\ \E m, n \in DOMAIN calls :
          /\ calls[m].at = <<"roster", 1>> /\ ~calls[m].ok /\ calls[m].op # "group_user_add"
          /\ calls[n].at[1] = "roster" /\ calls[n].at[2] > 1
    /\ \E m, n \in DOMAIN calls :
          /\ IsDisable(calls[m]) /\ ~calls[m].ok
          /\ IsDisable(calls[n]) /\ n > m

\* C6: when the connection or the listing of the accounts fails, no provider
\* mutation call is ever issued in the run and nothing is decided
C6_FatalStartMutatesNothing ==
    aborted \in {"connect_failed", "get_users_failed"} =>
        /\ calls = <<>>
        /\ provider = initial_accounts
        /\ membership = {}
        /\ plan = NoPlan

\* a real run over a non-empty roster and non-empty realm ended by a failed listing
C6_Witness ==
    /\ pc = "done" /\ aborted = "get_users_failed" /\ ~dry_run
    /\ Len(excel_users) > 0 /\ Len(provider) > 0

\* C7: with --email given, no disable action is reported or sent for any account
C7_FilterNeverDisables ==
    Truthy(email) =>
        /\ plan.disable = {}
        /\ \A c \in DOMAIN calls : ~IsDisable(calls[c])
        /\ \A k \in DOMAIN initial_accounts :
              provider[k].enabled = initial_accounts[k].enabled

\* a finished real run with --email that called the provider, over a realm holding
\* an account a run without --email would disable
C7_Witness ==
    /\ Finished /\ Truthy(email) /\ ~dry_run
    /\ calls # <<>>
    /\ \E k \in DOMAIN initial_accounts :
          /\ Truthy(initial_accounts[k].email)
          /\ AbsentFromRoster(initial_accounts[k])
          /\ ~Protected(initial_accounts[k])

\* C8: with --email given, at most one roster record is handled and at most one
\* create or update is decided
C8_FilterHandlesOneRecord ==
    Truthy(email) => /\ i <= 1
                     /\ Cardinality(plan.create \cup plan.update) <= 1

NoDifference(account, user) ==
    /\ account.email = user.email
    /\ account.firstName = user.firstName
    /\ account.lastName = user.lastName
    /\ \A a \in AttrKeys :
          IF a \in DOMAIN account.attributes /\ account.attributes[a] # <<>>
          THEN account.attributes[a][1] = user[a]
          ELSE user[a] = None

\* C10: in commands/sync.py, for a handled roster record whose matched account
\* shows no difference, no provider call is issued for the record, the record is
\* reported up to date, and the account gets no disable action in the run
C10_NoDifferenceNoCall ==
    command = "sync" =>
        \A n \in DOMAIN excel_users :
            (/\ n <= i
             /\ excel_users[n].email \in DOMAIN keycloak_users_by_email
             /\ NoDifference(keycloak_users_by_email[excel_users[n].email], excel_users[n]))
                => /\ \A c \in DOMAIN calls : calls[c].at # <<"roster", n>>
                   /\ n \in plan.uptodate /\ n \notin plan.update
                   /\ ~DisableActionFor(keycloak_users_by_email[excel_users[n].email].id)

\* a finished real run of commands/sync.py without --email that called the provider
\* for another record or account and met a record whose account holds the same
\* values, with names present on both sides
C10_Witness ==
    /\ Finished /\ command = "sync" /\ ~dry_run /\ ~Truthy(email)
    /\ calls # <<>>
    /\ \E n \in DOMAIN excel_users :
          /\ excel_users[n].email \in DOMAIN keycloak_users_by_email
          /\ NoDifference(keycloak_users_by_email[excel_users[n].email], excel_users[n])
          /\ Truthy(excel_users[n].firstName)
          /\ Truthy(excel_users[n].fullName)

(* commands/sync.py: what the update and create calls carry *)

\* the update calls commands/sync.py issued for roster record n
UpdateCallsFor(n) ==
    { c \in DOMAIN calls : calls[c].op = "update_user" /\ calls[c].at = <<"roster", n>> }

\* the create calls commands/sync.py issued for roster record n
CreateCallsFor(n) ==
    { c \in DOMAIN calls : calls[c].op = "create_user" /\ calls[c].at = <<"roster", n>> }

\* the account update_existing_user received for roster record n
ExistingUserOf(n) == keycloak_users_by_email[excel_users[n].email]

\* C11: in commands/sync.py every update call carries, for firstName and for
\* lastName, the value of the matched account when that value is non-empty and
\* the value of the roster record only when the account's value is empty
C11_ProviderNamesKept ==
    command = "sync" =>
        \A n \in DOMAIN excel_users : \A c \in UpdateCallsFor(n) :
            \A f \in {"firstName", "lastName"} :
                /\ Truthy(ExistingUserOf(n)[f])
                      => calls[c].payload[f] = ExistingUserOf(n)[f]
                /\ calls[c].payload[f] # ExistingUserOf(n)[f]
                      => /\ ~Truthy(ExistingUserOf(n)[f])
                         /\ calls[c].payload[f] = excel_users[n][f]

\* an update call of commands/sync.py for an account with a first name and no last
\* name, matched by a record with other names: one name kept, one taken
C11_Witness ==
    /\ command = "sync"
    /\ \E n \in DOMAIN excel_users : \E c \in UpdateCallsFor(n) :
          /\ Truthy(ExistingUserOf(n).firstName)
          /\ ExistingUserOf(n).firstName # excel_users[n].firstName
          /\ calls[c].payload.firstName = ExistingUserOf(n).firstName
          /\ ~Truthy(ExistingUserOf(n).lastName)
          /\ Truthy(excel_users[n].lastName)
          /\ calls[c].payload.lastName = excel_users[n].lastName
          /\ calls[c].ok

\* C12: in commands/sync.py the attribute map of every update call holds every key
\* of the account's map, holds the roster value for each of the six roster
\* attributes the record gives non-empty, and holds the account's value unchanged
\* for every other key; it holds no key beyond these
C12_AttributesMerged ==
    command = "sync" =>
        \A n \in DOMAIN excel_users : \A c \in UpdateCallsFor(n) :
            LET sent == calls[c].payload.attributes
                existing == ExistingUserOf(n).attributes
                written == { a \in AttrKeys : excel_users[n][a] \notin {None, ""} }
            IN  /\ DOMAIN sent = DOMAIN existing \cup written
                /\ \A k \in written : sent[k] = <<excel_users[n][k]>>
                /\ \A k \in DOMAIN existing \ written : sent[k] = existing[k]

\* an update call of commands/sync.py that writes one roster attribute over the
\* account's value, keeps a roster attribute the record leaves empty, and keeps
\* a key that is no roster attribute
C12_Witness ==
    /\ command = "sync"
    /\ \E n \in DOMAIN excel_users : \E c \in UpdateCallsFor(n) :
          LET sent == calls[c].payload.attributes
              existing == ExistingUserOf(n).attributes
          IN  /\ \E a \in AttrKeys \cap DOMAIN existing :
                    /\ Truthy(excel_users[n][a])
                    /\ existing[a] # <<excel_users[n][a]>>
                    /\ sent[a] = <<excel_users[n][a]>>
              /\ \E a \in AttrKeys \cap DOMAIN existing :
                    /\ ~Truthy(excel_users[n][a])
                    /\ sent[a] = existing[a]
              /\ \E k \in DOMAIN existing \ AttrKeys : sent[k] = existing[k]

\* C13: in a real run of commands/sync.py, a handled roster record whose email is
\* no key of the lookup causes exactly one create call; its payload has
\* emailVerified false, enabled true, one password credential marked temporary,
\* the configured required actions, and each of the six roster attributes exactly
\* when the record gives it non-empty
C13_CreateCallForUnmatchedRecord ==
    (command = "sync" /\ ~dry_run /\ pc \in {"sync", "disable", "done"}) =>
        \A n \in DOMAIN excel_users :
            (n <= i /\ excel_users[n].email \notin DOMAIN keycloak_users_by_email)
                => /\ Cardinality(CreateCallsFor(n)) = 1
                   /\ \A c \in CreateCallsFor(n) :
                         LET payload == calls[c].payload
                         IN  /\ payload.email = excel_users[n].email
                             /\ payload.emailVerified = FALSE
                             /\ payload.enabled = TRUE
                             /\ Len(payload.credentials) = 1
                             /\ payload.credentials[1].type = "password"
                             /\ payload.credentials[1].temporary = TRUE
                             /\ payload.requiredActions = REQUIRED_USER_ACTIONS
                             /\ \A a \in AttrKeys :
                                   IF excel_users[n][a] \in {None, ""}
                                   THEN a \notin DOMAIN payload.attributes
                                   ELSE /\ a \in DOMAIN payload.attributes
                                        /\ payload.attributes[a] = <<excel_users[n][a]>>

\* a successful create call of commands/sync.py for a record without a match that
\* gives one roster attribute non-empty, one as the empty string and one as None
C13_Witness ==
    /\ command = "sync" /\ ~dry_run
    /\ \E n \in DOMAIN excel_users : \E c \in CreateCallsFor(n) :
          /\ n <= i
          /\ excel_users[n].email \notin DOMAIN keycloak_users_by_email
          /\ calls[c].ok
          /\ \E a \in AttrKeys : Truthy(excel_users[n][a])
          /\ \E a \in AttrKeys : excel_users[n][a] = ""
          /\ \E a \in AttrKeys : excel_users[n][a] = None

\* the accounts the run decided to update or called update_user for on behalf of
\* a roster record
UpdateTargets ==
    { ExistingUserOf(n).id : n \in plan.update }
    \cup { calls[c].id : c \in { d \in DOMAIN calls : /\ calls[d].op = "update_user"
                                                      /\ calls[d].at[1] = "roster" } }

\* C14: in one run no roster record is both created and updated (or reported up
\* to date), by decision or by call, and no account is both the target of an
\* update for a record and the target of a disable action
C14_ActionSetsDisjoint ==
    /\ plan.create \cap (plan.update \cup plan.uptodate) = {}
    /\ \A n \in DOMAIN excel_users : CreateCallsFor(n) = {} \/ UpdateCallsFor(n) = {}
    /\ \A id \in UpdateTargets : id \notin plan.disable /\ ~DisableActionFor(id)

\* a finished real run without --email in which every call succeeded and that
\* created an account, updated another and disabled a third
C14_Witness ==
    /\ Finished /\ ~dry_run /\ ~Truthy(email)
    /\ \A c \in DOMAIN calls : calls[c].ok
    /\ plan.create # {} /\ plan.update # {} /\ plan.disable # {}
    /\ \E n \in plan.update : UpdateCallsFor(n) # {}
    /\ \E id \in plan.disable : DisableActionFor(id)

----------------------------------------------------------------------------
(* Properties of parse_excel_users and of the column detectors *)

\* the worksheet was opened and its header row is known
HeaderKnown == file.readable /\ file.active /\ ppc \notin {"load", "header"}

\* detect_email_column has answered
EmailColumnKnown == HeaderKnown /\ ppc # "email"

\* every column of the sheet is known and the loop over the rows runs or is over
ColumnsKnown == EmailColumnKnown /\ ppc \in {"rows", "returned"} /\ col_idx.email # NoColumn

\* the rows after the header row
DataRows == { r \in DOMAIN file.ws : r > header_row }

\* the rows the loop has gone through
HandledRows == { r \in DataRows : r < row_idx }

\* the rows that gave a record
RecordRows == { parsed_users[n].username : n \in DOMAIN parsed_users }

\* a text of only whitespace, the empty text included
OnlyWhitespace(s) == \A k \in DOMAIN s : s[k] \in Whitespace

\* the sampled rows: the twenty rows after the header row, as far as the sheet goes
Sampled == { r \in DOMAIN file.ws : header_row < r /\ r <= header_row + 20 }

\* the sampled rows in which the column holds a text of email shape
EmailRows(c) ==
    { r \in Sampled : file.ws[r][c].t = "str"
                      /\ \E text \in {Strip(file.ws[r][c].s)} : email_pattern(text) }

\* the sampled rows in which the column holds a text of two words or more
NameRows(c) ==
    { r \in Sampled : file.ws[r][c].t = "str"
                      /\ \E text \in {Strip(file.ws[r][c].s)} : name_pattern(text) }

Columns == 1..Width(file.ws)

\* some cell of the sample has the shape of an email address
EmailSampled == \E c \in Columns : EmailRows(c) # {}

\* C15 as stated: the parser never raises, and whenever the workbook cannot be
\* opened, no email column is detected or any exception occurred during the load,
\* the returned roster is empty
C15_AnyExceptionGivesEmptyRoster ==
    /\ ppc # "raised"
    /\ ppc = "returned" =>
          ((~file.readable \/ ~file.active \/ ~EmailSampled \/ exceptions # <<>>)
              => returned = <<>>)

\* C15: the parser never raises; when the workbook cannot be opened, has no
\* active sheet or shows no email column, the returned roster is empty; an
\* exception raised for a row leaves the records of the other rows in the roster
C15_FailureGivesEmptyRoster ==
    /\ ppc # "raised"
    /\ ppc = "returned" =>
          /\ (~file.readable \/ ~file.active \/ ~EmailSampled) => returned = <<>>
          /\ (file.readable /\ file.active /\ EmailSampled) => returned = parsed_users

\* the workbook could not be opened: the exception was handled and the parser
\* returned an empty roster
C15_Witness ==
    /\ ppc = "returned" /\ ~file.readable
    /\ exceptions = <<"load_workbook">>
    /\ returned = <<>>

\* the text holds "eronnut" with each letter in either case
MentionsEronnut(s) ==
    \E k \in 0..(Len(s) - Len(EronnutText)) :
        \A n \in DOMAIN EronnutText :
            \E l \in DOMAIN LowerCase :
                /\ LowerCase[l] = EronnutText[n]
                /\ s[k + n] \in {LowerCase[l], UpperCase[l]}

\* the data rows with a cell text that holds "eronnut" in any letter case
ResignedRows ==
    { r \in DataRows : \E c \in DOMAIN file.ws[r] :
                          file.ws[r][c].t = "str" /\ MentionsEronnut(file.ws[r][c].s) }

\* C16: no record of the roster, collected or returned, comes from a data row
\* with a cell text that holds "eronnut" in any letter case
C16_ResignedRowsGiveNoRecord ==
    HeaderKnown =>
        /\ RecordRows \cap ResignedRows = {}
        /\ \A n \in DOMAIN returned : returned[n].username \notin ResignedRows

\* a returned roster with a record, from a sheet with a row marked in a letter
\* case other than lower case and an address in its email cell
C16_Witness ==
    /\ ColumnsKnown /\ ppc = "returned" /\ returned # <<>>
    /\ \E r \in ResignedRows :
          /\ \A c \in DOMAIN file.ws[r] : ~Contains(file.ws[r][c].s, EronnutText)
          /\ file.ws[r][col_idx.email].t = "str"
          /\ EmailStrAccepts(Strip(file.ws[r][col_idx.email].s))

\* the email cell of the row is absent, has no value or holds whitespace only
EmailCellEmpty(row) ==
    \/ col_idx.email > Len(row)
    \/ row[col_idx.email].t = "none"
    \/ row[col_idx.email].t = "str" /\ OnlyWhitespace(row[col_idx.email].s)

\* the row has an email text that User(...) rejects
FailsValidation(row) ==
    /\ ~EmailCellEmpty(row)
    /\ ~EmailStrAccepts(Strip(PyStr(row[col_idx.email])))

\* C17: every record has a non-empty email; a handled row whose email cell is
\* empty or absent, or whose record fails validation, gives no record; and once
\* the loop is over every row that is not marked resigned, has an email text and
\* passes validation has its record, whatever rows came before it
C17_RecordsHaveEmail ==
    ColumnsKnown =>
        /\ \A n \in DOMAIN parsed_users :
              /\ parsed_users[n].email # PyNone
              /\ parsed_users[n].email # <<>>
        /\ \A r \in HandledRows :
              (EmailCellEmpty(file.ws[r]) \/ FailsValidation(file.ws[r]))
                  => r \notin RecordRows
        /\ ppc = "returned" =>
              \A r \in DataRows \ ResignedRows :
                  (~EmailCellEmpty(file.ws[r]) /\ ~FailsValidation(file.ws[r]))
                      => \E n \in DOMAIN returned : returned[n].username = r

\* a returned roster with the record of a row that follows a row whose record
\* failed validation
C17_Witness ==
    /\ ColumnsKnown /\ ppc = "returned"
    /\ "validation" \in Range(exceptions)
    /\ \E r \in DataRows : \E n \in DOMAIN returned :
          /\ FailsValidation(file.ws[r])
          /\ returned[n].username > r
          /\ returned[n].email # <<>>

\* C18: in every record each of the six optional attributes is absent or a
\* non-empty text without leading or trailing whitespace
C18_OptionalAttributesTrimmedOrAbsent ==
    \A n \in DOMAIN parsed_users : \A a \in AttrKeys :
        \/ parsed_users[n][a] = PyNone
        \/ /\ parsed_users[n][a] # <<>>
           /\ parsed_users[n][a][1] \notin Whitespace
           /\ parsed_users[n][a][Len(parsed_users[n][a])] \notin Whitespace

\* detect_name_column has answered
NameColumnKnown == EmailColumnKnown /\ col_idx.email # NoColumn /\ ppc # "name"

\* the columns the name detector looks at
NameCandidates == Columns \ {col_idx.email}

\* a function on 1..n as the sequence of its values
AsSequence(f) == f \o <<>>

\* per column, the sampled rows with a text of email shape
EmailRowsByColumn == AsSequence([c \in Columns |-> EmailRows(c)])

\* per column, the sampled rows with a text of two words or more
NameRowsByColumn == AsSequence([c \in Columns |-> NameRows(c)])

\* the columns of `among` with a match and with no fewer matches than any other
Best(rows, among) ==
    { c \in among : /\ rows[c] # {}
                    /\ \A d \in among : Cardinality(rows[d]) <= Cardinality(rows[c]) }

\* the column of `best` whose last match, the one that brings it to the maximal
\* count, comes first in the scan
FirstToReach(rows, best) ==
    CHOOSE c \in best : \A d \in best \ {c} :
        \/ Max(rows[c]) < Max(rows[d])
        \/ Max(rows[c]) = Max(rows[d]) /\ c < d

\* the column of `best` whose first match comes first in the scan: top row
\* first, leftmost column within a row
FirstMatched(rows, best) ==
    CHOOSE c \in best : \A d \in best \ {c} :
        \/ Min(rows[c]) < Min(rows[d])
        \/ Min(rows[c]) = Min(rows[d]) /\ c < d

\* the tie rule as stated: none exactly when no column has a match, otherwise the
\* first column index to reach the maximal count -- the lowest index among the
\* columns of maximal count, or the one that got to that count first
AnswersFirstColumn(rows, among, answer) ==
    \E best \in {Best(rows, among)} :
        IF best = {} THEN answer = NoColumn
        ELSE answer \in {Min(best), FirstToReach(rows, best)}

\* the tie rule of the code: none exactly when no column has a match, otherwise,
\* among the columns of maximal count, the one matched first in the scan
AnswersFirstMatched(rows, among, answer) ==
    \E best \in {Best(rows, among)} :
        IF best = {} THEN answer = NoColumn
        ELSE answer = FirstMatched(rows, best)

\* C19 as stated: detect_email_column and detect_name_column return none exactly
\* when no column has a match, and otherwise the first column index to reach the
\* maximal count
C19_TieGoesToFirstColumn ==
    /\ EmailColumnKnown =>
          \E rows \in {EmailRowsByColumn} :
              AnswersFirstColumn(rows, Columns, col_idx.email)
    /\ NameColumnKnown =>
          \E rows \in {NameRowsByColumn} :
              AnswersFirstColumn(rows, NameCandidates, col_idx.name)

\* C19: detect_email_column and detect_name_column return none exactly when no
\* column has a match, and otherwise, among the columns of maximal count, the
\* one whose first match comes first in the scan of the sample
C19_TieGoesToFirstMatched ==
    /\ EmailColumnKnown =>
          \E rows \in {EmailRowsByColumn} :
              AnswersFirstMatched(rows, Columns, col_idx.email)
    /\ NameColumnKnown =>
          \E rows \in {NameRowsByColumn} :
              AnswersFirstMatched(rows, NameCandidates, col_idx.name)

\* two columns tie in email matches and the column returned is neither the
\* lowest of the two nor the one that reached the common count first
C19_Witness ==
    /\ EmailColumnKnown
    /\ \E rows \in {EmailRowsByColumn} : \E best \in {Best(rows, Columns)} :
          /\ Cardinality(best) = 2
          /\ col_idx.email \in best
          /\ col_idx.email # Min(best)
          /\ col_idx.email # FirstToReach(rows, best)

\* two columns tie in name matches and the column returned is not the lowest
C19_NameTieReached ==
    /\ NameColumnKnown
    /\ \E rows \in {NameRowsByColumn} : \E best \in {Best(rows, NameCandidates)} :
          /\ Cardinality(best) = 2
          /\ col_idx.name \in best
          /\ col_idx.name # Min(best)

\* the column has an email shape in nine tenths of the sampled rows or more
MostlyEmails(rows, c) ==
    Sampled # {} /\ 10 * Cardinality(rows[c]) >= 9 * Cardinality(Sampled)

\* C20 as stated: a column with an email shape in at least 90% of the sampled
\* rows, when no other column has one in more of them nor in more than 90% of
\* them, is the column detect_email_column returns
C20_MostlyEmailColumnDetected ==
    EmailColumnKnown =>
        \E rows \in {EmailRowsByColumn} :
            \A c \in Columns :
                (/\ MostlyEmails(rows, c)
                 /\ \A d \in Columns \ {c} :
                       /\ Cardinality(rows[d]) <= Cardinality(rows[c])
                       /\ 10 * Cardinality(rows[d]) <= 9 * Cardinality(Sampled))
                    => col_idx.email = c

\* C20: a column with an email shape in at least 90% of the sampled rows, when
\* every other column has one in fewer of the sampled rows, is the column
\* detect_email_column returns
C20_StrictlyBestEmailColumnDetected ==
    EmailColumnKnown =>
        \E rows \in {EmailRowsByColumn} :
            \A c \in Columns :
                (/\ MostlyEmails(rows, c)
                 /\ \A d \in Columns \ {c} : Cardinality(rows[d]) < Cardinality(rows[c]))
                    => col_idx.email = c

\* a sheet with more data rows than the sample takes, in which the returned
\* column has an email shape in at least 90% but not in all of the sampled rows
\* and a column to its left, matched from the first row on, has fewer
C20_Witness ==
    /\ EmailColumnKnown
    /\ DataRows \ Sampled # {}
    /\ \E rows \in {EmailRowsByColumn} : \E c \in Columns :
          /\ col_idx.email = c
          /\ MostlyEmails(rows, c)
          /\ rows[c] # Sampled
          /\ \A d \in Columns \ {c} : Cardinality(rows[d]) < Cardinality(rows[c])
          /\ \E d \in 1..(c - 1) : header_row + 1 \in rows[d]

\* the sampled rows in which the column holds a date-like value: a text of the
\* shape d.m.yyyy once trimmed, or a native date or time
DateLikeRows(c) ==
    { r \in Sampled :
        \/ /\ file.ws[r][c].t = "str"
           /\ \E text \in {Strip(file.ws[r][c].s)} : date_pattern(text)
        \/ file.ws[r][c].t \in {"datetime", "time"} }

\* the columns excluded from the date detection: email, name and hometown
ExcludedColumns == {col_idx.email, col_idx.name, col_idx.hometown} \ {NoColumn}

\* the columns, excluded ones apart, with a date-like value in the sample
DateLikeColumns == { c \in Columns \ ExcludedColumns : DateLikeRows(c) # {} }

\* C21: once the columns are detected, the effectiveDate column is the lowest
\* column, excluded ones apart, with a date-like value in the sample, and the
\* expirationDate column the second lowest (none where there is no such
\* column); neither is an excluded column, and effectiveDate lies to the left
\* of expirationDate when both are there
C21_DateColumnsAreLowestTwo ==
    ColumnsKnown =>
        \E found \in {DateLikeColumns} :
            /\ col_idx.effective_date = (IF found = {} THEN NoColumn ELSE Min(found))
            /\ col_idx.expiration_date =
                  (IF Cardinality(found) < 2 THEN NoColumn ELSE Min(found \ {Min(found)}))
            /\ {col_idx.effective_date, col_idx.expiration_date} \cap ExcludedColumns = {}
            /\ (col_idx.effective_date # NoColumn /\ col_idx.expiration_date # NoColumn)
                  => col_idx.effective_date < col_idx.expiration_date

\* a sheet with three date-like columns besides a date-like hometown column:
\* the first two are returned, the third and the hometown column are not
C21_Witness ==
    /\ ColumnsKnown
    /\ Cardinality(DateLikeColumns) >= 3
    /\ col_idx.hometown \in Columns /\ DateLikeRows(col_idx.hometown) # {}
    /\ col_idx.effective_date # NoColumn
    /\ col_idx.expiration_date # NoColumn
    /\ col_idx.expiration_date # Max(DateLikeColumns)

\* the date fields of a record with the columns they are read from
DateFields ==
    { <<"effectiveDate", col_idx.effective_date>>,
      <<"expirationDate", col_idx.expiration_date>> }

\* a text of the form dd.mm.yyyy
DayMonthYear(s) == Len(s) = 10 /\ date_pattern(s)

\* C22 as stated: for every record and each detected date column, a native date
\* or time in the cell of the record's row gives the date field the value in
\* the form dd.mm.yyyy (for a datetime: its day, month and year), and a text
\* gives the field the trimmed text
C22_DateFieldsFormatted ==
    ColumnsKnown =>
        \A n \in DOMAIN parsed_users : \A f \in DateFields :
            f[2] # NoColumn =>
                \E cell \in {file.ws[parsed_users[n].username][f[2]]} :
                \E field \in {parsed_users[n][f[1]]} :
                    /\ cell.t \in {"datetime", "time"} => DayMonthYear(field)
                    /\ cell.t = "datetime" =>
                          field = TwoDigits(cell.day) \o <<".">> \o TwoDigits(cell.month)
                                    \o <<".">> \o DecimalText(cell.year)
                    /\ cell.t = "str" => field = Strip(cell.s)

\* the positions at which a token of the text starts: a character that is no
\* whitespace, at the start of the text or after whitespace
TokenStarts(s) ==
    { k \in DOMAIN s : s[k] \notin Whitespace /\ (k = 1 \/ s[k - 1] \in Whitespace) }

\* the token that starts at position k: the characters up to the next whitespace
TokenAt(s, k) ==
    SubSeq(s, k, Min({ e \in k..Len(s) : e = Len(s) \/ s[e + 1] \in Whitespace }))

\* the token starts of the argument; an absent argument has no token
InputTokens == IF name_input = PyNone THEN {} ELSE TokenStarts(name_input)

\* C23: parse_name_field returns both names absent for an argument without a
\* token (absent, empty or whitespace only), the token and an absent last name
\* for one token, and the first and the last token for two tokens or more
C23_NameSplitByTokenCount ==
    name_result # <<>> =>
        \E starts \in {InputTokens} :
            /\ starts = {} => name_result = <<PyNone, PyNone>>
            /\ Cardinality(starts) = 1 =>
                  name_result = <<TokenAt(name_input, Min(starts)), PyNone>>
            /\ Cardinality(starts) >= 2 =>
                  name_result = <<TokenAt(name_input, Min(starts)),
                                  TokenAt(name_input, Max(starts))>>

\* parse_name_field has returned for a text of three tokens with whitespace
\* before the first, whose middle token differs from the last
C23_Witness ==
    /\ name_result # <<>>
    /\ \E starts \in {InputTokens} :
          /\ Cardinality(starts) = 3
          /\ 1 \notin starts
          /\ \E k \in starts \ {Min(starts), Max(starts)} :
                TokenAt(name_input, k) # TokenAt(name_input, Max(starts))
          /\ name_result[2] = TokenAt(name_input, Max(starts))

\* the call creates or updates the account of a roster record
IsCreateOrUpdate(c) == c.at[1] = "roster" /\ c.op \in {"create_user", "update_user"}

\* C24: the provider calls of a run, in the order they were issued: the calls
\* for roster records come in roster order, with one create or update per
\* record at most, the disable calls come in the order of the account list,
\* and no call for a roster record comes after a disable call
C24_CallsInRosterThenAccountOrder ==
    \A m \in DOMAIN calls : \A k \in DOMAIN calls :
        m < k =>
            /\ ~(calls[m].at[1] = "account" /\ calls[k].at[1] = "roster")
            /\ (calls[m].at[1] = "roster" /\ calls[k].at[1] = "roster")
                  => calls[m].at[2] <= calls[k].at[2]
            /\ (IsCreateOrUpdate(calls[m]) /\ IsCreateOrUpdate(calls[k])
                  /\ calls[m].payload # [emailVerified |-> FALSE]
                  /\ calls[k].payload # [emailVerified |-> FALSE])   \* cli.py's follow-up call
                  => calls[m].at[2] < calls[k].at[2]
            /\ (calls[m].at[1] = "account" /\ calls[k].at[1] = "account")
                  => calls[m].at[2] < calls[k].at[2]

\* a finished run of sync with a create or update for each of two roster
\* records and two disable calls after them
C24_Witness ==
    /\ Finished /\ command = "sync"
    /\ \E m, k \in DOMAIN calls :
          /\ IsCreateOrUpdate(calls[m]) /\ IsCreateOrUpdate(calls[k])
          /\ calls[m].at[2] = 1 /\ calls[k].at[2] = 2
    /\ Cardinality({ m \in DOMAIN calls : calls[m].at[1] = "account" }) = 2

\* the accounts have been listed and the lookup has been built
Listed == pc \in {"sync", "disable"} \/ (pc = "done" /\ aborted = None)

\* the positions, in the list the run started with, of the accounts with the email
ListedWithEmail(e) == { k \in DOMAIN initial_accounts : initial_accounts[k].email = e }

\* C25: from the listing to the end of the run the lookup holds, for every
\* email of a listed account, the last account of the list with that email, as
\* it was listed, whatever the run has created, updated or disabled since; and
\* every update call for a roster record goes to that account
C25_LookupLastWinsAndFrozen ==
    Listed =>
        /\ DOMAIN keycloak_users_by_email
              = { initial_accounts[k].email :
                    k \in { n \in DOMAIN initial_accounts : Truthy(initial_accounts[n].email) } }
        /\ \A e \in DOMAIN keycloak_users_by_email :
              keycloak_users_by_email[e] = initial_accounts[Max(ListedWithEmail(e))]
        /\ \A c \in DOMAIN calls :
              (calls[c].at[1] = "roster" /\ calls[c].op = "update_user") =>
                  \E listed \in {ListedWithEmail(excel_users[calls[c].at[2]].email)} :
                      listed # {} /\ calls[c].id = initial_accounts[Max(listed)].id

\* two listed accounts share the email of a roster record, the update for the
\* record went to the later one and changed it at the provider, and the lookup
\* still holds the account as it was listed
C25_Witness ==
    /\ Listed
    /\ \E c \in DOMAIN calls :
          /\ calls[c].at[1] = "roster" /\ calls[c].op = "update_user" /\ calls[c].ok
          /\ \E e \in {excel_users[calls[c].at[2]].email} :
                /\ Cardinality(ListedWithEmail(e)) = 2
                /\ calls[c].id = initial_accounts[Max(ListedWithEmail(e))].id
                /\ \E k \in DOMAIN provider :
                      /\ provider[k].id = calls[c].id
                      /\ provider[k] # keycloak_users_by_email[e]

\* C26: with an empty roster the run ends at once: it never gets to the
\* connection or to the listing, it lists and plans nothing, issues no call and
\* leaves every account of the provider as it was
C26_EmptyRosterTouchesNothing ==
    Len(parsed) = 0 =>
        /\ pc \in {"start", "done"}
        /\ aborted \in {None, "no_users"}
        /\ pc = "done" => aborted = "no_users"
        /\ keycloak_users = <<>> /\ keycloak_users_by_email = <<>>
        /\ plan = NoPlan
        /\ calls = <<>>
        /\ provider = initial_accounts

\* a real, unfiltered run with an empty roster has ended while the provider
\* holds an enabled account that a run with a roster would disable
C26_Witness ==
    /\ Len(parsed) = 0 /\ pc = "done" /\ ~dry_run /\ ~Truthy(email)
    /\ \E k \in DOMAIN provider :
          /\ provider[k].enabled
          /\ Truthy(provider[k].email)
          /\ provider[k].email \notin PROTECTED_USERS
          /\ provider[k].username # "admin"

\* a real run without --email has ended and every provider call it issued succeeded
FinishedWithoutFailure ==
    /\ Finished /\ ~dry_run /\ ~Truthy(email)
    /\ \A c \in DOMAIN calls : calls[c].ok

\* the emails of the roster records
RosterEmails == { excel_users[n].email : n \in DOMAIN excel_users }

\* C27 as stated: after a real, unfiltered run whose calls all succeeded, every
\* account of the provider with the email of a roster record is enabled
C27_RosterAccountsEnabled ==
    FinishedWithoutFailure =>
        \A k \in DOMAIN provider :
            (Truthy(provider[k].email) /\ provider[k].email \in RosterEmails)
                => provider[k].enabled

\* C28 as stated: in a second run on the same roster, after a run whose calls
\* all succeeded, no roster record is found to differ from its account and no
\* update call is issued for one
C28_SecondRunUpdatesNothing ==
    previous_runs # <<>> =>
        /\ plan.update = {}
        /\ \A c \in DOMAIN calls :
              ~(calls[c].at[1] = "roster" /\ calls[c].op = "update_user")

\* C29 as stated: the create calls of a run carry pairwise different emails
C29_OneCreatePerEmail ==
    \A c \in DOMAIN calls : \A d \in DOMAIN calls :
        (/\ calls[c].op = "create_user" /\ calls[d].op = "create_user"
         /\ calls[c].payload.email = calls[d].payload.email)
            => c = d

\* the fields whose column parse_excel_users has assigned
AssignedFields ==
    { f \in {"email", "name", "hometown", "effective_date", "expiration_date"} :
        col_idx[f] # NoColumn }

\* C30 as stated: the columns assigned to email, name, hometown, effectiveDate and
\* expirationDate are pairwise different, and no record's hometown is the text of
\* the email cell of its row
C30_ColumnsPairwiseDistinct ==
    ColumnsKnown =>
        /\ \A f \in AssignedFields : \A g \in AssignedFields :
              col_idx[f] = col_idx[g] => f = g
        /\ col_idx.hometown # col_idx.email

====
